---- MODULE Spec2Model ----
(***************************************************************************)
(* Model of the Pioneer DDJ-400 4-deck mapping script                      *)
(* (src/Pioneer-DDJ-400-quirx-4D-script.js).                               *)
(*                                                                         *)
(* The script is a set of handlers that run to completion, one at a time.  *)
(* Every handler is translated into an operator that takes the "world" w   *)
(* (the script's state object, the host engine, the controller's lights    *)
(* and the list of host calls made so far in this turn) and returns the    *)
(* world after the handler.  An action of the state machine is one turn:   *)
(* one MIDI input, one engine value change with the callbacks it           *)
(* delivers, one timer firing, or the passing of time.                     *)
(***************************************************************************)
EXTENDS Integers, Sequences, FiniteSets, TLC

VARIABLES
    state,      \* PioneerDDJ400.state
    engine,     \* the host: control values, live connections, live timers
    midi,       \* last value sent to each controller address <<status, data1>>
    calls,      \* host calls made by the last turn, in order
    history     \* what an observer of the shift buttons has seen so far

vars == <<state, engine, midi, calls, history>>

\* ------------------------------------------------------------------ bounds

\* Values engine.getValue('[Master]', 'num_decks') may have for a session.
NumDecksChoices == {2, 4}
\* Milliseconds that pass between two inputs.
TimeSteps == {50, 240}
\* Elapsed times are kept exactly below this value and saturate at it.
MaxElapsed == 300
\* engine.getValue('[EffectRack1]', 'num_effectunits') and the num_effectslots
\* of every unit; default_effect_unit needs two units.
NumEffectUnits == 2
NumEffectSlots == 2

\* --------------------------------------------------------------- constants

Channels == {0, 1}
Decks == {0, 1, 2, 3}

default_effect_unit == <<1, 1, 2, 2>>
primary_deck == <<0, 1>>
NumSamplerPads == 8

times_loop_active == 500
times_loop_adjust == 250
times_double_press == 290

loop_modifiers_none == 0
loop_modifiers_adjust_in == 1
loop_modifiers_adjust_out == 2

\* constants.lights.<name>: the midi address [status, data1] of a light
lights_vu_meter == [status |-> \hB0, data1 |-> \h02]
lights_beat_fx == [status |-> \h94, data1 |-> \h47]
lights_shift_beat_fx == [status |-> \h94, data1 |-> \h43]
lights_play_pause == [status |-> \h90, data1 |-> \h0B]
lights_shift_play_pause == [status |-> \h90, data1 |-> \h47]
lights_cue == [status |-> \h90, data1 |-> \h0C]
lights_shift_cue == [status |-> \h90, data1 |-> \h48]
lights_load_animation == [status |-> \h9F, data1 |-> \h00]
lights_reloop == [status |-> \h90, data1 |-> \h4D]
lights_shift_reloop == [status |-> \h90, data1 |-> \h50]
lights_loop_in == [status |-> \h90, data1 |-> \h10]
lights_shift_loop_in == [status |-> \h90, data1 |-> \h4C]
lights_loop_out == [status |-> \h90, data1 |-> \h11]
lights_shift_loop_out == [status |-> \h90, data1 |-> \h4E]
lights_beatsync == [status |-> \h90, data1 |-> \h58]
lights_shift_beatsync == [status |-> \h90, data1 |-> \h60]
lights_headphone_cue == [status |-> \h90, data1 |-> \h54]
lights_shift_headphone_cue == [status |-> \h90, data1 |-> \h68]

\* constants.pad_modes.<name>
pad_modes_hot_cue == \h00
pad_modes_beat_loop == \h60
pad_modes_beat_jump == \h20
pad_modes_sampler == \h30
pad_modes_keyboard == \h40
pad_modes_fx_1 == \h10
pad_modes_fx_2 == \h50
pad_modes_key_shift == \h70

\* ------------------------------------------------- javascript's undefined

\* An object field is the empty set while undefined and {v} once set to v.
Undefined == {}
Def(v) == {v}
Val(f) == CHOOSE v \in f : TRUE

\* An object is a function from its keys; {} is the empty one.
EmptyObject == << >>
Put(obj, key, value) == (key :> value) @@ obj
Has(obj, key) == key \in DOMAIN obj

\* Statements run in order: a loop computes the world a statement leaves
\* before it goes on to the next one.  Always TRUE.
Done(w) == DOMAIN w # {}

\* throw: an exception ends the turn.  It is the last entry of the log of the
\* turn, and the statements that would follow it do not run.
throw(w, error) == [w EXCEPT !.calls = Append(@, <<"throw", error>>)]

Thrown(w) == Len(w.calls) > 0 /\ w.calls[Len(w.calls)][1] = "throw"

\* statement; then: then runs unless the statement threw
unless_thrown(w, then(_)) == IF Thrown(w) THEN w ELSE then(w)

\* for (i = first; i <= last; i++) { w = body(w, i) }: the iterations run in
\* order, the first half of the range before the second half.
middle_of(first, last) == (first + last) \div 2

RECURSIVE for_range(_, _, _, _)
for_range(body(_, _), w, first, last) ==
    CASE Done(w) ->
        IF first > last \/ Thrown(w) THEN w
        ELSE IF first = last THEN body(w, first)
        ELSE for_range(body, for_range(body, w, first, middle_of(first, last)),
                       middle_of(first, last) + 1, last)

\* if (cond) { then }
if_then(w, cond(_), then(_)) == IF cond(w) THEN then(w) ELSE w

\* The keys a for (var key in obj) loop visits, as a sequence.
RECURSIVE Enumerate(_)
Enumerate(keys) ==
    IF keys = {} THEN << >>
    ELSE LET key == CHOOSE k \in keys : TRUE
         IN  <<key>> \o Enumerate(keys \ {key})

\* for (var key in obj) { w = body(w, key) }
for_in(body(_, _), w, obj) ==
    LET keys == Enumerate(DOMAIN obj)
    IN  for_range(LAMBDA v, i : body(v, keys[i]), w, 1, Len(keys))

\* The same over the values of an object whose keys are kept in order.
for_each(body(_, _), w, values) ==
    for_range(LAMBDA v, i : body(v, values[i]), w, 1, Len(values))

\* ---------------------------------------------------------------- the host

\* The controls of a deck that are on when the script is loaded: the decks
\* differ in every indicator.  Effect unit u has NumEffectSlots slots, its
\* first effect has the focus, and the effect of unit 2 is enabled.
StartupOn(group) ==
    CASE group = "[Channel1]" ->
             {"cue_indicator", "sync_enabled", "pfl", "keylock", "hotcue_1_enabled",
              "hotcue_3_enabled", "hotcue_5_enabled", "hotcue_7_enabled", "VuMeter",
              "beatloop_1_enabled"}
      [] group = "[Channel2]" ->
             {"sync_master", "quantize", "hotcue_2_enabled", "hotcue_4_enabled",
              "hotcue_6_enabled", "hotcue_8_enabled", "track_loaded"}
      [] group = "[Channel3]" ->
             {"sync_master", "quantize", "hotcue_1_enabled", "hotcue_2_enabled",
              "hotcue_6_enabled", "hotcue_8_enabled", "track_loaded", "VuMeter",
              "beatloop_4_enabled"}
      [] group = "[Channel4]" ->
             {"cue_indicator", "sync_enabled", "pfl", "keylock", "hotcue_3_enabled",
              "hotcue_4_enabled", "hotcue_5_enabled", "hotcue_7_enabled"}
      [] OTHER -> {}

StartupValue(group, control) ==
    CASE group \in {"[Channel1]", "[Channel2]", "[Channel3]", "[Channel4]"} ->
             IF control \in StartupOn(group) THEN 1 ELSE 0
      [] group = "[EffectRack1]" /\ control = "num_effectunits" -> NumEffectUnits
      [] control = "num_effectslots" -> NumEffectSlots
      [] control = "focused_effect" -> 1
      [] group = "[EffectRack1_EffectUnit2_Effect1]" /\ control = "enabled" -> 1
      [] group \in {"[Sampler1]", "[Sampler10]"} /\ control = "track_loaded" -> 1
      [] OTHER -> 0

\* engine.getValue: engine.values holds the controls whose value differs
\* between sessions or changes during one, every other control keeps the
\* value it has when the script is loaded.
getValue(w, group, control) ==
    IF <<group, control>> \in DOMAIN w.engine.values
    THEN w.engine.values[<<group, control>>]
    ELSE StartupValue(group, control)

Called(w, call) == [w EXCEPT !.calls = Append(@, call)]

\* midi.sendShortMsg(status, data1, value)
sendShortMsg(w, status, data1, value) ==
    [Called(w, <<"sendShortMsg", status, data1, value>>) EXCEPT
        !.midi = Put(@, <<status, data1>>, value)]

\* engine.makeConnection(group, control, fun): the connection object.  The
\* owner and key (where the script stores it: state.connections[owner][key]
\* for the channel Val(owner), state.persistent_connections[key] for the
\* owner Undefined) tell apart two connections of the same callback to the
\* same control.
Connection(owner, key, group, control, fun) ==
    [owner |-> owner, key |-> key, group |-> group, control |-> control, fun |-> fun]

\* The engine has no control to connect to for the pairs in engine.rejected:
\* makeConnection then makes no connection and returns undefined.
made(w, conn) ==
    IF <<conn.group, conn.control>> \in w.engine.rejected THEN Undefined ELSE Def(conn)

makeConnection(w, conn) ==
    [Called(w, <<"makeConnection", conn.owner, conn.group, conn.control>>) EXCEPT
        !.engine.connections = @ \cup made(w, conn)]

\* connection.trigger() on what makeConnection returned
trigger_made(w, conn, if_made(_, _)) ==
    IF made(w, conn) = Undefined THEN throw(w, "TypeError") ELSE if_made(w, conn)

\* connection.disconnect()
disconnect(w, conn) ==
    [Called(w, <<"disconnect", conn.owner, conn.group, conn.control>>) EXCEPT
        !.engine.connections = @ \ {conn}]

\* engine.beginTimer(period, callback): the id of the new timer.  callback is
\* one of the three closures of update_loop_inout_lights: kind names the
\* closure, channel and blink_state are the variables it captured.
NextTimerId(w) ==
    CHOOSE i \in 1..(Cardinality(DOMAIN w.engine.timers) + 1) :
        /\ i \notin DOMAIN w.engine.timers
        /\ \A j \in 1..(i - 1) : j \in DOMAIN w.engine.timers

beginTimer(w, id, period, kind, channel) ==
    [Called(w, <<"beginTimer", channel, period>>) EXCEPT
        !.engine.timers =
            Put(@, id, [period |-> period, kind |-> kind, channel |-> channel,
                        blink_state |-> FALSE])]

\* engine.stopTimer(id)
stopTimer(w, id) ==
    [Called(w, <<"stopTimer", id>>) EXCEPT
        !.engine.timers = [i \in (DOMAIN @) \ {id} |-> @[i]]]

\* print(text): text is the tuple of the message and the values put into it.
print(w, text) == Called(w, <<"print", text>>)

\* engine.softTakeoverIgnoreNextValue(group, control)
softTakeoverIgnoreNextValue(w, group, control) ==
    Called(w, <<"softTakeoverIgnoreNextValue", group, control>>)

\* ----------------------------------------------------------------- helpers

channel_to_deck(w, channel) == w.state.channel_mapping[channel]

group_to_deck(group) ==
    CASE group = "[Channel1]" -> 0
      [] group = "[Channel2]" -> 1
      [] group = "[Channel3]" -> 2
      [] group = "[Channel4]" -> 3
      [] OTHER -> 0

deck_to_group(deck) == "[Channel" \o ToString(deck + 1) \o "]"

channel_to_group(w, channel) == deck_to_group(channel_to_deck(w, channel))

\* The warning deck_to_channel prints for a deck that is not active is not
\* recorded.
deck_to_channel(w, deck) ==
    IF w.state.channel_mapping[0] = deck THEN 0
    ELSE IF w.state.channel_mapping[1] = deck THEN 1
    ELSE 0

group_to_channel(w, group) == deck_to_channel(w, group_to_deck(group))

get_num_decks(w) == getValue(w, "[Master]", "num_decks")

next_deck_by_one(w, channel, old_deck) == (old_deck + 1) % get_num_decks(w)

next_deck(w, channel, old_deck) == (old_deck + 2) % get_num_decks(w)

is_deck_active(w, deck) ==
    \/ w.state.channel_mapping[0] = deck
    \/ w.state.channel_mapping[1] = deck

is_group_active(w, group) == is_deck_active(w, group_to_deck(group))

\* update_light(channel, midi_out, active); active is a boolean here, the
\* callers turn an engine value v into v # 0.
update_light(w, channel, midi_out, active) ==
    sendShortMsg(w, midi_out.status + channel, midi_out.data1,
                 IF active THEN \h7F ELSE 0)

\* set_pad_light(mode, channel, padnum, shift, value)
set_pad_light(w, mode, channel, padnum, shift, value) ==
    sendShortMsg(w,
                 \h97 + 2 * (IF channel # 0 THEN 1 ELSE 0) + (IF shift THEN 1 ELSE 0),
                 mode + padnum, value)

\* ----------------------------------------------------------------- outputs

vu_meter_update(w, value, group) ==
    sendShortMsg(w, lights_vu_meter.status + group_to_channel(w, group),
                 lights_vu_meter.data1, value * 140)

track_loaded_animation(w, value, group) ==
    sendShortMsg(w, lights_load_animation.status, group_to_channel(w, group),
                 IF value > 0 THEN \h7F ELSE 0)

\* update_indicator(value, group, midi_out, shift_midi_out); shift_midi_out is
\* Undefined where the script passes false.
update_indicator(w, value, group, midi_out, shift_midi_out) ==
    IF ~is_group_active(w, group) THEN w
    ELSE LET channel == group_to_channel(w, group)
             w1 == update_light(w, channel, midi_out, value # 0)
         IN  IF shift_midi_out # Undefined
             THEN update_light(w1, channel, Val(shift_midi_out), value # 0)
             ELSE w1

play_indicator(w, value, group) ==
    update_indicator(w, value, group, lights_play_pause, Def(lights_shift_play_pause))

cue_indicator(w, value, group) ==
    update_indicator(w, value, group, lights_cue, Def(lights_shift_cue))

beatsync_update(w, value, group) ==
    update_indicator(w, value, group, lights_beatsync, Undefined)

beatmaster_update(w, value, group) ==
    update_indicator(w, value, group, lights_shift_beatsync, Undefined)

headphone_cue_update(w, value, group) ==
    update_indicator(w, value, group, lights_headphone_cue, Undefined)

quantize_update(w, value, group) ==
    update_indicator(w, value, group, lights_shift_headphone_cue, Undefined)

keylock_update(w, value, group) ==
    IF ~is_group_active(w, group) THEN w
    ELSE set_pad_light(w, pad_modes_beat_jump, group_to_channel(w, group), 3, TRUE,
                       IF value # 0 THEN \h7F ELSE 0)

update_beatloop(w, value, group, padnum) ==
    IF ~is_group_active(w, group) THEN w
    ELSE set_pad_light(w, pad_modes_beat_loop, group_to_channel(w, group), padnum,
                       FALSE, IF value # 0 THEN \h7F ELSE 0)

update_hotcue(w, value, group, padnum) ==
    IF ~is_group_active(w, group) THEN w
    ELSE LET channel == group_to_channel(w, group)
             v == IF value # 0 THEN \h7F ELSE 0
         IN  set_pad_light(
                 set_pad_light(w, pad_modes_hot_cue, channel, padnum, FALSE, v),
                 pad_modes_hot_cue, channel, padnum, TRUE, v)

\* -------------------------------------------------------------------- loop

get_loop_active(w, group) == getValue(w, group, "loop_enabled")

set_reloop_light(w, channel, value) ==
    update_light(update_light(w, channel, lights_reloop, value # 0),
                 channel, lights_shift_reloop, value # 0)

get_loop_adjust_state(w, deck) ==
    IF w.state.deck[deck].loop_adjust # Undefined
    THEN Val(w.state.deck[deck].loop_adjust)
    ELSE loop_modifiers_none

timer_id == "loop_inout_blink"

\* state.timers[channel][timer_id], Undefined while the key is missing
TimerOf(w, channel) ==
    IF Has(w.state.timers[channel], timer_id)
    THEN w.state.timers[channel][timer_id]
    ELSE Undefined

keep_blinking(w, channel) == w

\* stop_blink, the closure of update_loop_inout_lights
stop_blink(w, channel) ==
    IF TimerOf(w, channel) # Undefined
    THEN [stopTimer(w, Val(TimerOf(w, channel))) EXCEPT
             !.state.timers[channel] = Put(@, timer_id, Undefined)]
    ELSE w

\* A timer begun with the loop_active period whatever the mode.
arm_blink_slow(w, channel, period, kind) ==
    LET id == NextTimerId(w)
    IN  [beginTimer(w, id, times_loop_active, kind, channel) EXCEPT
            !.state.timers[channel] = Put(@, timer_id, Def(id))]

\* state.timers[channel][timer_id] = engine.beginTimer(period, closure)
arm_blink(w, channel, period, kind) ==
    LET id == NextTimerId(w)
    IN  [beginTimer(w, id, period, kind, channel) EXCEPT
            !.state.timers[channel] = Put(@, timer_id, Def(id))]

\* An update that does not note the mode its timer blinks for.
forget_loop_modifier(w, channel, modifier) == w

set_current_loop_modifier(w, channel, modifier) ==
    [w EXCEPT !.state.channel[channel].current_loop_modifier = modifier]

update_loop_inout_lights(w, channel) ==
    LET loop_active == get_loop_active(w, channel_to_group(w, channel))
        modifier == get_loop_adjust_state(w, channel_to_deck(w, channel))
        timer_present == TimerOf(w, channel) # Undefined
        cur_loop_mod == w.state.channel[channel].current_loop_modifier
    IN  IF loop_active = 0
        THEN LET w1 == stop_blink(w, channel)
                 w2 == update_light(w1, channel, lights_loop_in, TRUE)
                 w3 == update_light(w2, channel, lights_loop_out, TRUE)
                 w4 == update_light(w3, channel, lights_shift_loop_in, TRUE)
                 w5 == update_light(w4, channel, lights_shift_loop_out, TRUE)
             IN  set_current_loop_modifier(w5, channel, loop_modifiers_none)
        ELSE IF modifier = loop_modifiers_adjust_in
        THEN IF cur_loop_mod = loop_modifiers_adjust_in /\ timer_present
             THEN w
             ELSE LET w1 == stop_blink(w, channel)
                      w2 == arm_blink(w1, channel, times_loop_adjust, "in")
                      w3 == update_light(w2, channel, lights_loop_out, FALSE)
                      w4 == update_light(w3, channel, lights_shift_loop_out, FALSE)
                  IN  set_current_loop_modifier(w4, channel, loop_modifiers_adjust_in)
        ELSE IF modifier = loop_modifiers_adjust_out
        THEN IF cur_loop_mod = loop_modifiers_adjust_out /\ timer_present
             THEN w
             ELSE LET w1 == stop_blink(w, channel)
                      w2 == update_light(w1, channel, lights_loop_in, FALSE)
                      w3 == update_light(w2, channel, lights_shift_loop_in, FALSE)
                      w4 == arm_blink(w3, channel, times_loop_adjust, "out")
                  IN  set_current_loop_modifier(w4, channel, loop_modifiers_adjust_out)
        ELSE \* default: and case loop_modifiers.none
             IF cur_loop_mod = loop_modifiers_none /\ timer_present
             THEN w
             ELSE LET w1 == stop_blink(w, channel)
                      w2 == arm_blink(w1, channel, times_loop_active, "both")
                      w3 == update_light(w2, channel, lights_loop_in, FALSE)
                      w4 == update_light(w3, channel, lights_loop_out, FALSE)
                      w5 == update_light(w4, channel, lights_shift_loop_in, FALSE)
                      w6 == update_light(w5, channel, lights_shift_loop_out, FALSE)
                  IN  set_current_loop_modifier(w6, channel, loop_modifiers_none)

set_loop_adjust_state(w, deck, adjust) ==
    LET w1 == [w EXCEPT !.state.deck[deck].loop_adjust = Def(adjust)]
    IN  IF is_deck_active(w1, deck)
        THEN update_loop_inout_lights(w1, deck_to_channel(w1, deck))
        ELSE w1

set_loop_enabled_keeping_adjust(w, value, group) ==
    if_then(if_then(w, LAMBDA v : is_group_active(v, group),
                    LAMBDA v : update_loop_inout_lights(v, group_to_channel(v, group))),
            LAMBDA v : is_group_active(v, group),
            LAMBDA v : set_reloop_light(v, group_to_channel(v, group), value))

set_loop_enabled(w, value, group) ==
    if_then(set_loop_adjust_state(w, group_to_deck(group), loop_modifiers_none),
            LAMBDA v : is_group_active(v, group),
            LAMBDA v : set_reloop_light(v, group_to_channel(v, group), value))

\* A callback that lights its lights at every firing.
timer_callback_lighting(w, id) ==
    LET t == w.engine.timers[id]
        w0 == [w EXCEPT !.engine.timers[id].blink_state = TRUE]
    IN  for_each(LAMBDA v, light : update_light(v, t.channel, light, TRUE),
                 w0, <<lights_loop_in, lights_loop_out>>)

\* The callback of a blink timer: one of the three closures.
timer_callback(w, id) ==
    LET t == w.engine.timers[id]
        blink_state == ~t.blink_state
        w0 == [w EXCEPT !.engine.timers[id].blink_state = blink_state]
        in1 == update_light(w0, t.channel, lights_loop_in, blink_state)
    IN  CASE t.kind = "both" ->
                LET w2 == update_light(in1, t.channel, lights_loop_out, blink_state)
                    w3 == update_light(w2, t.channel, lights_shift_loop_in, blink_state)
                IN  update_light(w3, t.channel, lights_shift_loop_out, blink_state)
          [] t.kind = "in" ->
                update_light(in1, t.channel, lights_shift_loop_in, blink_state)
          [] t.kind = "out" ->
                update_light(
                    update_light(w0, t.channel, lights_loop_out, blink_state),
                    t.channel, lights_shift_loop_out, blink_state)

\* ----------------------------------------------------------------- effects

\* A script whose effects always follow channel 0.
first_channel(w) == 0

get_last_shift_channel(w) == w.state.last_shift_button_pressed

get_effect_deck(w) == channel_to_deck(w, get_last_shift_channel(w))

\* state.deck[deck].effect_unit: Undefined for a deck init did not reach
get_deck_effect_unit(w, deck) == w.state.deck[deck].effect_unit

\* The string javascript makes of a unit number in a group name.
UnitString(unit) == IF unit = Undefined THEN "undefined" ELSE ToString(Val(unit))

get_effect_unit_group(unit) == "[EffectRack1_EffectUnit" \o UnitString(unit) \o "]"

get_deck_effect_unit_group(w, deck) ==
    get_effect_unit_group(get_deck_effect_unit(w, deck))

get_focussed_effect(w, deck) ==
    getValue(w, get_deck_effect_unit_group(w, deck), "focused_effect")

get_effect_group(unit, slot) ==
    "[EffectRack1_EffectUnit" \o UnitString(unit) \o "_Effect" \o ToString(slot) \o "]"

get_focussed_effect_group(w, deck) ==
    get_effect_group(get_deck_effect_unit(w, deck), get_focussed_effect(w, deck))

get_num_effect_slots(w, unit) ==
    getValue(w, get_effect_unit_group(unit), "num_effectslots")

\* state.deck has the four decks: get_deck_effect_unit throws for another.
update_fx_light(w) ==
    LET deck == get_effect_deck(w)
        enabled == getValue(w, get_focussed_effect_group(w, deck), "enabled")
    IN  IF deck \notin Decks THEN throw(w, "TypeError")
        ELSE update_light(w, 0, lights_beat_fx, enabled # 0)

\* -------------------------------------------------------------------- pads

\* A scale that may always be stepped.
allow_beatjump_always(w, channel) == TRUE

allow_beatjump_downscale(w, channel) ==
    ~(w.state.channel[channel].beatjump_scalestep <= -1)

allow_beatjump_upscale(w, channel) ==
    ~(w.state.channel[channel].beatjump_scalestep >= 1)

\* Scale pad lights that are left as they are.
keep_beatjump_shift_lights(w, channel) == w

update_beatjump_shift_lights(w, channel) ==
    LET w1 == set_pad_light(w, pad_modes_beat_jump, channel, 6, TRUE,
                            IF allow_beatjump_downscale(w, channel) THEN \h7F ELSE 0)
    IN  set_pad_light(w1, pad_modes_beat_jump, channel, 7, TRUE,
                      IF allow_beatjump_upscale(w1, channel) THEN \h7F ELSE 0)

\* constants.sampler_groups[deck][padnum]
sampler_groups(deck, padnum) ==
    "[Sampler" \o ToString((IF deck % 2 = 0 THEN 1 ELSE 9) + padnum) \o "]"

\* update_sampler, the body of the loop over the pads of a deck
update_sampler_pad(w, value, sampler_group, deck, padnum) ==
    IF sampler_group = sampler_groups(deck, padnum)
    THEN LET channel == deck_to_channel(w, deck)
             v == IF value # 0 THEN \h7F ELSE 0
             w1 == set_pad_light(w, pad_modes_sampler, channel, padnum, FALSE, v)
         IN  set_pad_light(w1, pad_modes_sampler, channel, padnum, TRUE, v)
    ELSE w

\* update_sampler, the body of the loop over the decks
update_sampler_deck(w, value, sampler_group, deck) ==
    IF ~is_deck_active(w, deck) THEN w
    ELSE IF deck \notin Decks THEN throw(w, "TypeError")
    ELSE for_range(LAMBDA v, padnum :
                       update_sampler_pad(v, value, sampler_group, deck, padnum),
                   w, 0, NumSamplerPads - 1)

\* The same sampler might be on multiple pads/channels...
update_sampler(w, value, sampler_group) ==
    for_range(LAMBDA v, deck : update_sampler_deck(v, value, sampler_group, deck),
              w, 0, get_num_decks(w) - 1)

update_brake_light(w) ==
    set_pad_light(set_pad_light(w, pad_modes_fx_1, 0, 0, FALSE, \h7F),
                  pad_modes_fx_1, 1, 0, FALSE, \h7F)

update_head_split_light(w, value) ==
    LET v == IF value # 0 THEN \h7F ELSE 0
    IN  set_pad_light(set_pad_light(w, pad_modes_beat_jump, 0, 1, TRUE, v),
                      pad_modes_beat_jump, 1, 1, TRUE, v)

\* --------------------------------------------------------------- callbacks

\* constants.output_control_to_function, in the order of its keys
output_control_to_function ==
    << [control |-> "play_indicator",        fun |-> "play_indicator",       trig |-> TRUE],
       [control |-> "cue_indicator",         fun |-> "cue_indicator",        trig |-> TRUE],
       [control |-> "VuMeter",               fun |-> "vu_meter_update",      trig |-> TRUE],
       [control |-> "track_loaded",          fun |-> "track_loaded_animation", trig |-> FALSE],
       [control |-> "sync_enabled",          fun |-> "beatsync_update",      trig |-> TRUE],
       [control |-> "sync_master",           fun |-> "beatmaster_update",    trig |-> TRUE],
       [control |-> "pfl",                   fun |-> "headphone_cue_update", trig |-> TRUE],
       [control |-> "quantize",              fun |-> "quantize_update",      trig |-> TRUE],
       [control |-> "keylock",               fun |-> "keylock_update",       trig |-> TRUE],
       [control |-> "loop_enabled",          fun |-> "set_loop_enabled",     trig |-> TRUE],
       [control |-> "beatloop_0.25_enabled", fun |-> "update_beatloop_025",  trig |-> TRUE],
       [control |-> "beatloop_0.5_enabled",  fun |-> "update_beatloop_05",   trig |-> TRUE],
       [control |-> "beatloop_1_enabled",    fun |-> "update_beatloop_1",    trig |-> TRUE],
       [control |-> "beatloop_2_enabled",    fun |-> "update_beatloop_2",    trig |-> TRUE],
       [control |-> "beatloop_4_enabled",    fun |-> "update_beatloop_4",    trig |-> TRUE],
       [control |-> "beatloop_8_enabled",    fun |-> "update_beatloop_8",    trig |-> TRUE],
       [control |-> "beatloop_16_enabled",   fun |-> "update_beatloop_16",   trig |-> TRUE],
       [control |-> "beatloop_32_enabled",   fun |-> "update_beatloop_32",   trig |-> TRUE],
       [control |-> "hotcue_1_enabled",      fun |-> "update_hotcue_1",      trig |-> TRUE],
       [control |-> "hotcue_2_enabled",      fun |-> "update_hotcue_2",      trig |-> TRUE],
       [control |-> "hotcue_3_enabled",      fun |-> "update_hotcue_3",      trig |-> TRUE],
       [control |-> "hotcue_4_enabled",      fun |-> "update_hotcue_4",      trig |-> TRUE],
       [control |-> "hotcue_5_enabled",      fun |-> "update_hotcue_5",      trig |-> TRUE],
       [control |-> "hotcue_6_enabled",      fun |-> "update_hotcue_6",      trig |-> TRUE],
       [control |-> "hotcue_7_enabled",      fun |-> "update_hotcue_7",      trig |-> TRUE],
       [control |-> "hotcue_8_enabled",      fun |-> "update_hotcue_8",      trig |-> TRUE] >>

\* The call fun(value, group) of a connection's callback.
Callback(w, fun, value, group) ==
    CASE fun = "play_indicator"         -> play_indicator(w, value, group)
      [] fun = "cue_indicator"          -> cue_indicator(w, value, group)
      [] fun = "vu_meter_update"        -> vu_meter_update(w, value, group)
      [] fun = "track_loaded_animation" -> track_loaded_animation(w, value, group)
      [] fun = "beatsync_update"        -> beatsync_update(w, value, group)
      [] fun = "beatmaster_update"      -> beatmaster_update(w, value, group)
      [] fun = "headphone_cue_update"   -> headphone_cue_update(w, value, group)
      [] fun = "quantize_update"        -> quantize_update(w, value, group)
      [] fun = "keylock_update"         -> keylock_update(w, value, group)
      [] fun = "set_loop_enabled"       -> set_loop_enabled(w, value, group)
      [] fun = "update_beatloop_025"    -> update_beatloop(w, value, group, 0)
      [] fun = "update_beatloop_05"     -> update_beatloop(w, value, group, 1)
      [] fun = "update_beatloop_1"      -> update_beatloop(w, value, group, 2)
      [] fun = "update_beatloop_2"      -> update_beatloop(w, value, group, 3)
      [] fun = "update_beatloop_4"      -> update_beatloop(w, value, group, 4)
      [] fun = "update_beatloop_8"      -> update_beatloop(w, value, group, 5)
      [] fun = "update_beatloop_16"     -> update_beatloop(w, value, group, 6)
      [] fun = "update_beatloop_32"     -> update_beatloop(w, value, group, 7)
      [] fun = "update_hotcue_1"        -> update_hotcue(w, value, group, 0)
      [] fun = "update_hotcue_2"        -> update_hotcue(w, value, group, 1)
      [] fun = "update_hotcue_3"        -> update_hotcue(w, value, group, 2)
      [] fun = "update_hotcue_4"        -> update_hotcue(w, value, group, 3)
      [] fun = "update_hotcue_5"        -> update_hotcue(w, value, group, 4)
      [] fun = "update_hotcue_6"        -> update_hotcue(w, value, group, 5)
      [] fun = "update_hotcue_7"        -> update_hotcue(w, value, group, 6)
      [] fun = "update_hotcue_8"        -> update_hotcue(w, value, group, 7)
      [] fun = "update_sampler"         -> update_sampler(w, value, group)
      [] fun = "update_head_split_light" -> update_head_split_light(w, value)
      [] fun = "update_fx_light"        -> update_fx_light(w)

trigger_with_zero(w, conn) == Callback(w, conn.fun, 0, conn.group)

\* connection.trigger(): the callback runs with the control's current value.
trigger(w, conn) ==
    Callback(w, conn.fun, getValue(w, conn.group, conn.control), conn.group)

\* ------------------------------------------------------------------- setup

\* An indicator that is lit whatever the deck.
indicate_primary_always(w, channel) ==
    set_pad_light(w, pad_modes_beat_jump, channel, 0, TRUE, \h7F)

update_deck_channel_indicator(w, channel) ==
    LET deck == channel_to_deck(w, channel)
        is_primary == IF deck = primary_deck[channel + 1] THEN \h7F ELSE 0
    IN  set_pad_light(w, pad_modes_beat_jump, channel, 0, TRUE, is_primary)

\* disconnect_channel, the body of the loop over state.timers[channel]
stop_timer(w, channel, timer) ==
    LET handle == w.state.timers[channel][timer]
    IN  IF handle # Undefined THEN stopTimer(w, Val(handle)) ELSE w

leave_connected(w, channel, conn) == w

\* disconnect_channel, the body of the loop over state.connections[channel]
disconnect_connection(w, channel, conn) ==
    LET handle == w.state.connections[channel][conn]
    IN  IF handle # Undefined THEN disconnect(w, Val(handle)) ELSE w

\* A disconnect that clears the timers of the other channel.
disconnect_other_channel(w, channel) ==
    [for_in(LAMBDA v, timer : stop_timer(v, 1 - channel, timer),
            w, w.state.timers[1 - channel])
        EXCEPT !.state.timers[1 - channel] = EmptyObject]

disconnect_channel(w, channel) ==
    LET \* clear timers
        w1 == for_in(LAMBDA v, timer : stop_timer(v, channel, timer),
                     w, w.state.timers[channel])
        w2 == [w1 EXCEPT !.state.timers[channel] = EmptyObject]
        \* disconnect
        w3 == for_in(LAMBDA v, conn : disconnect_connection(v, channel, conn),
                     w2, w2.state.connections[channel])
        w4 == [w3 EXCEPT !.state.connections[channel] = EmptyObject]
        \* prepare soft takeover
        group == channel_to_group(w4, channel)
        eq_group == "[EqualizerRack1_" \o group \o "_Effect1]"
        w5 == softTakeoverIgnoreNextValue(w4, eq_group, "parameter1")
        w6 == softTakeoverIgnoreNextValue(w5, eq_group, "parameter2")
        w7 == softTakeoverIgnoreNextValue(w6, eq_group, "parameter3")
        w8 == softTakeoverIgnoreNextValue(w7, "[QuickEffectRack1_" \o group \o "]", "super1")
        w9 == softTakeoverIgnoreNextValue(w8, group, "pregain")
    IN  softTakeoverIgnoreNextValue(w9, group, "volume")

\* connect_samplers, the body of the loop over the pads
connect_sampler(w, channel, deck, padnum) ==
    LET control_name == sampler_groups(deck, padnum)
        control_key == control_name \o "_light"
        conn == Connection(Def(channel), control_key, control_name, "track_loaded",
                           "update_sampler")
        w1 == [makeConnection(w, conn) EXCEPT
                  !.state.connections[channel] = Put(@, control_key, made(w, conn))]
    IN  trigger_made(w1, conn, trigger)

\* constants.sampler_groups has an entry for each of the four decks;
\* deck_samplers.length of any other deck throws.
connect_samplers(w, channel) ==
    LET deck == channel_to_deck(w, channel)
    IN  IF deck \notin Decks THEN throw(w, "TypeError")
        ELSE for_range(LAMBDA v, padnum : connect_sampler(v, channel, deck, padnum),
                       w, 0, NumSamplerPads - 1)

\* connect_channel, the body of the loop over c2f
connect_control(w, channel, group, c2f) ==
    LET conn == Connection(Def(channel), c2f.control, group, c2f.control, c2f.fun)
        w1 == [makeConnection(w, conn) EXCEPT
                  !.state.connections[channel] = Put(@, c2f.control, made(w, conn))]
    IN  IF c2f.trig THEN trigger_made(w1, conn, trigger) ELSE w1

connect_channel(w, channel) ==
    LET deck == channel_to_deck(w, channel)
        group == deck_to_group(deck)
        w0 == print(w, <<"Connecting", channel, deck, group>>)
        \* connect
        w1 == for_each(LAMBDA v, c2f : connect_control(v, channel, group, c2f),
                       w0, output_control_to_function)
        \* restore extra timers, lights that are not done upon connection trigger
        w2 == unless_thrown(w1, LAMBDA v : connect_samplers(v, channel))
        w3 == unless_thrown(w2, LAMBDA v : update_deck_channel_indicator(v, channel))
    IN  unless_thrown(w3, update_fx_light)

rebind_then_disconnect(w, channel) ==
    LET old_deck == channel_to_deck(w, channel)
        nxt == next_deck(w, channel, old_deck)
    IN  IF old_deck = nxt
        THEN print(w, <<"Would toggle deck but next deck is identical", old_deck>>)
        ELSE LET w0 == print(w, <<"Toggling deck", old_deck, nxt>>)
                 w1 == [w0 EXCEPT !.state.channel_mapping[channel] = nxt]
                 w2 == disconnect_channel(w1, channel)
             IN  connect_channel(w2, channel)

\* The rebind without the comparison of the two decks.
toggle_without_comparison(w, channel) ==
    LET old_deck == channel_to_deck(w, channel)
        nxt == next_deck(w, channel, old_deck)
        w0 == print(w, <<"Toggling deck", old_deck, nxt>>)
        w1 == disconnect_channel(w0, channel)
        w2 == [w1 EXCEPT !.state.channel_mapping[channel] = nxt]
    IN  connect_channel(w2, channel)

toggle_deck_channel(w, channel) ==
    LET old_deck == channel_to_deck(w, channel)
        nxt == next_deck(w, channel, old_deck)
    IN  IF old_deck = nxt
        THEN print(w, <<"Would toggle deck but next deck is identical", old_deck>>)
        ELSE LET w0 == print(w, <<"Toggling deck", old_deck, nxt>>)
                 w1 == disconnect_channel(w0, channel)
                 w2 == [w1 EXCEPT !.state.channel_mapping[channel] = nxt]
             IN  connect_channel(w2, channel)

toggle_both == TRUE

always_toggle_both == FALSE

\* Both channels, 0 before 1, or the one channel.
toggle_deck_channel_gateway(w, channel) ==
    for_range(toggle_deck_channel, w,
              IF always_toggle_both THEN 0 ELSE channel,
              IF always_toggle_both THEN 1 ELSE channel)

\* ------------------------------------------------------------------- shift

shift_double_press(w, channel) ==
    toggle_deck_channel_gateway(Called(w, <<"shift_double_press", channel>>), channel)

always_double(w, channel) == TRUE

get_shift_double(w, channel) ==
    IF w.state.channel[channel].shift_double # Undefined
    THEN Val(w.state.channel[channel].shift_double)
    ELSE FALSE

set_shift_double(w, channel, value) ==
    [w EXCEPT !.state.channel[channel].shift_double = Def(value)]

get_shift_button_pressed(w, channel) ==
    IF w.state.channel[channel].shift_button_pressed # Undefined
    THEN Val(w.state.channel[channel].shift_button_pressed)
    ELSE FALSE

\* Timestamps are kept relative to the present: Date.now() is 0 and a stored
\* timestamp is minus the time elapsed since it was taken, kept exactly down
\* to -MaxElapsed.  Timestamp 0 of the code, the epoch, lies further back than
\* that for every Date.now().
Date_now == 0
Epoch == 0 - MaxElapsed

get_last_shift_time(w, channel) ==
    IF w.state.channel[channel].shift_time # Undefined
    THEN Val(w.state.channel[channel].shift_time)
    ELSE Epoch

\* A window that includes its end.
within_or_at_double_press(new_pressed, last_shift_time) ==
    (new_pressed - last_shift_time) <= times_double_press

within_double_press(new_pressed, last_shift_time) ==
    (new_pressed - last_shift_time) < times_double_press

\* set_shift_button_pressed, from new_pressed on.  From first press to second
\* release must be < configured time to count as double press.
detect_double_press(w, channel, pressed) ==
    LET new_pressed == Date_now
        within_time == within_double_press(new_pressed, get_last_shift_time(w, channel))
    IN  IF pressed
        THEN LET w3 == set_shift_double(w, channel, within_time)
             IN  IF ~within_time
                 THEN [w3 EXCEPT !.state.channel[channel].shift_time = Def(new_pressed)]
                 ELSE w3
        ELSE IF within_time /\ get_shift_double(w, channel)
             THEN shift_double_press(w, channel)
             ELSE w

\* A script that takes note of the channel and updates the light after the
\* double press was handled.
set_shift_button_pressed_late(w, channel, pressed) ==
    LET last_ch == w.state.last_shift_button_pressed
        w1 == [w EXCEPT !.state.channel[channel].shift_button_pressed = Def(pressed)]
        w2 == detect_double_press(w1, channel, pressed)
        w3 == [w2 EXCEPT !.state.last_shift_button_pressed = channel]
    IN  if_then(w3, LAMBDA v : last_ch # channel, update_fx_light)

set_shift_button_pressed(w, channel, pressed) ==
    LET last_ch == w.state.last_shift_button_pressed
        w1 == [w EXCEPT !.state.channel[channel].shift_button_pressed = Def(pressed),
                        !.state.last_shift_button_pressed = channel]
    IN  detect_double_press(if_then(w1, LAMBDA v : last_ch # channel, update_fx_light),
                            channel, pressed)

shiftPressed(w, channel, value) == set_shift_button_pressed(w, channel, value = \h7F)

\* engine.setValue and script.toggleControl ask the host for something; what
\* the host then changes arrives as a later value change, and the request
\* itself leaves the script, its connections and its timers as they are.
setValue(w, group, control, value) == Called(w, <<"setValue", group, control, value>>)
toggleControl(w, group, control) == w
\* engine.softTakeover(group, control, true)
softTakeover(w, group, control) == Called(w, <<"softTakeover", group, control>>)

\* -------------------------------------------------------------------- loop

\* A loop-in button that only ever enters the adjust mode.
loop_in_enter_only(w, channel, value) ==
    IF value = 0 \/ get_loop_active(w, channel_to_group(w, channel)) = 0 THEN w
    ELSE set_loop_adjust_state(w, channel_to_deck(w, channel), loop_modifiers_adjust_in)

loop_in(w, channel, value) ==
    IF value = 0 THEN w
    ELSE LET deck == channel_to_deck(w, channel)
             group == deck_to_group(deck)
         IN  IF get_loop_active(w, group) # 0
             THEN IF get_loop_adjust_state(w, deck) = loop_modifiers_adjust_in
                  THEN set_loop_adjust_state(w, deck, loop_modifiers_none)
                  ELSE set_loop_adjust_state(w, deck, loop_modifiers_adjust_in)
             ELSE setValue(setValue(setValue(w, group, "loop_end_position", -1),
                                    group, "loop_in", 1),
                           group, "loop_in", 0)

loop_out(w, channel, value) ==
    IF value = 0 THEN w
    ELSE LET deck == channel_to_deck(w, channel)
             group == deck_to_group(deck)
         IN  IF get_loop_active(w, group) # 0
             THEN IF get_loop_adjust_state(w, deck) = loop_modifiers_adjust_out
                  THEN set_loop_adjust_state(w, deck, loop_modifiers_none)
                  ELSE set_loop_adjust_state(w, deck, loop_modifiers_adjust_out)
             ELSE setValue(setValue(w, group, "loop_out", 1), group, "loop_out", 0)

\* --------------------------------------------------------------- jog wheel

loop_adjust_multiply == 50
\* constants.bend_scale, 0.8, as numerator and denominator
bend_scale == <<8, 10>>

\* engine.isScratching(group_number)
isScratching(w, group_number) == group_number \in w.engine.scratching

\* engine.scratchTick(group_number, interval)
scratchTick(w, group_number, interval) ==
    Called(w, <<"scratchTick", group_number, interval>>)

\* A jog wheel that never adjusts a loop.
jog_without_adjust(w, deck, value) ==
    IF isScratching(w, deck + 1)
    THEN scratchTick(w, deck + 1, value - 64)
    ELSE setValue(w, deck_to_group(deck), "jog",
                  <<(value - 64) * bend_scale[1], bend_scale[2]>>)

\* jogTurn once deck is known: value is the wheel's position around 64.
jog_deck(w, deck, value) ==
    LET group == deck_to_group(deck)
        new_value == value - 64
        loop_modifier == IF get_loop_active(w, group) > 0
                         THEN get_loop_adjust_state(w, deck)
                         ELSE loop_modifiers_none
    IN  IF loop_modifier = loop_modifiers_adjust_in
        THEN setValue(w, group, "loop_start_position",
                      new_value * loop_adjust_multiply
                          + getValue(w, group, "loop_start_position"))
        ELSE IF loop_modifier = loop_modifiers_adjust_out
        THEN setValue(w, group, "loop_end_position",
                      new_value * loop_adjust_multiply
                          + getValue(w, group, "loop_end_position"))
        ELSE IF isScratching(w, deck + 1)
        THEN scratchTick(w, deck + 1, new_value)
        ELSE setValue(w, group, "jog",
                      <<new_value * bend_scale[1], bend_scale[2]>>)

\* The jog wheel turning the deck a channel has when no deck was switched.
jogTurn_primary_deck(w, channel, value) == jog_deck(w, primary_deck[channel + 1], value)

jogTurn(w, channel, value) == jog_deck(w, channel_to_deck(w, channel), value)

\* constants.vinyl_mode
vinyl_mode == TRUE

\* engine.scratchEnable(group_number, ...) and engine.scratchDisable
scratchEnable(w, group_number) ==
    [Called(w, <<"scratchEnable", group_number>>) EXCEPT
        !.engine.scratching = @ \cup {group_number}]

scratchDisable(w, group_number) ==
    [Called(w, <<"scratchDisable", group_number>>) EXCEPT
        !.engine.scratching = @ \ {group_number}]

\* PioneerDDJ400.jogTouch(channel, _control, value)
jogTouch(w, channel, value) ==
    LET deck == channel_to_deck(w, channel)
    IN  \* skip while adjusting the loop points
        IF get_loop_adjust_state(w, deck) # loop_modifiers_none THEN w
        ELSE IF value # 0 /\ vinyl_mode THEN scratchEnable(w, deck + 1)
        ELSE scratchDisable(w, deck + 1)

\* -------------------------------------------------------------------- pads

padchannel_to_channel(padchannel) == IF padchannel >= 9 THEN 1 ELSE 0

padchannel_has_shift(padchannel) == IF padchannel % 2 # 0 THEN FALSE ELSE TRUE

handle_beatjump_shift(w, channel, padnum) ==
    IF padnum = 0 THEN toggle_deck_channel_gateway(w, channel)
    ELSE IF padnum = 1 THEN toggleControl(w, "[Master]", "headSplit")
    ELSE IF padnum = 3 THEN toggleControl(w, channel_to_group(w, channel), "keylock")
    ELSE LET allow_upscale == allow_beatjump_upscale(w, channel)
             allow_downscale == allow_beatjump_downscale(w, channel)
         IN  IF padnum = 6 /\ allow_downscale
             THEN update_beatjump_shift_lights(
                      [w EXCEPT !.state.channel[channel].beatjump_scalestep = @ - 1],
                      channel)
             ELSE IF padnum = 7 /\ allow_upscale
             THEN update_beatjump_shift_lights(
                      [w EXCEPT !.state.channel[channel].beatjump_scalestep = @ + 1],
                      channel)
             ELSE w

beatjump_sizes == <<-1, 1, -2, 2, -4, 4, -8, 8>>
beatjump_scalefac == 16

\* Math.pow(beatjump_scalefac, scalestep) * size as numerator and denominator
beatjump_scaled(scalestep, size) ==
    IF scalestep >= 0
    THEN <<size * beatjump_scalefac ^ scalestep, 1>>
    ELSE <<size, beatjump_scalefac ^ (0 - scalestep)>>

handle_beatjump(w, channel, padnum, shift, value) ==
    IF value = 0 THEN w
    ELSE IF shift THEN handle_beatjump_shift(w, channel, padnum)
    ELSE setValue(w, channel_to_group(w, channel), "beatjump",
                  beatjump_scaled(w.state.channel[channel].beatjump_scalestep,
                                  beatjump_sizes[padnum + 1]))

\* handle_pad: the pad modes other than beat jump only pass values on to the
\* engine.
handle_pad(w, padchannel, control, value) ==
    LET channel == padchannel_to_channel(padchannel)
        shift == padchannel_has_shift(padchannel)
        padnum == control % 16
        mode == control - (control % 16)
    IN  IF mode = pad_modes_beat_jump
        THEN handle_beatjump(w, channel, padnum, shift, value)
        ELSE w

\* ---------------------------------------------------------- init, shutdown

\* PioneerDDJ400.state as the script file declares it
DeclaredState ==
    [ channel_mapping |-> [c \in Channels |-> c],
      connections |-> [c \in Channels |-> EmptyObject],
      timers |-> [c \in Channels |-> EmptyObject],
      channel |-> [c \in Channels |->
                      [ current_loop_modifier |-> Undefined,
                        beatjump_scalestep |-> Undefined,
                        shift_double |-> Undefined,
                        shift_time |-> Undefined,
                        shift_button_pressed |-> Undefined ]],
      deck |-> [d \in Decks |-> [loop_adjust |-> Undefined, effect_unit |-> Undefined]],
      persistent_connections |-> EmptyObject,
      last_shift_button_pressed |-> 0 ]

persistent(w, key, group, control, fun) ==
    LET conn == Connection(Undefined, key, group, control, fun)
    IN  [makeConnection(w, conn) EXCEPT
            !.state.persistent_connections = Put(@, key, Def(conn))]

\* init, the body of the loop over the slots of an effect unit
init_effect_slot(w, unit, slot) ==
    LET effect_group == get_effect_group(Def(unit), slot)
        w1 == softTakeover(w, effect_group, "meta")
    IN  persistent(w1,
                   "effect_unit_" \o ToString(unit) \o "_slot_" \o ToString(slot)
                       \o "_enabled",
                   effect_group, "enabled", "update_fx_light")

\* init, the body of the loop over the effect units
init_effect_unit(w, unit) ==
    LET unit_group == get_effect_unit_group(Def(unit))
        w1 == softTakeover(w, unit_group, "mix")
        w2 == setValue(w1, unit_group, "show_focus", 1)
        w3 == persistent(w2, "effect_unit_" \o ToString(unit) \o "_focussed",
                         unit_group, "focused_effect", "update_fx_light")
    IN  for_range(LAMBDA v, slot : init_effect_slot(v, unit, slot),
                  w3, 1, get_num_effect_slots(w3, Def(unit)))

\* init, the body of the loop over the four decks
init_soft_takeover(w, deck) ==
    LET group == deck_to_group(deck)
        eq_group == "[EqualizerRack1_" \o group \o "_Effect1]"
        w1 == softTakeover(w, eq_group, "parameter1")
        w2 == softTakeover(w1, eq_group, "parameter2")
        w3 == softTakeover(w2, eq_group, "parameter3")
        w4 == softTakeover(w3, "[QuickEffectRack1_" \o group \o "]", "super1")
        w5 == softTakeover(w4, group, "pregain")
    IN  softTakeover(w5, group, "volume")

init(w) ==
    LET \* play track loaded animation for fun
        w1 == track_loaded_animation(track_loaded_animation(w, 1, "0"), 1, "1")
        num_decks == get_num_decks(w1)
        \* set default effect units
        w2 == [w1 EXCEPT !.state.deck =
                  [d \in Decks |->
                      IF d < num_decks
                      THEN [@[d] EXCEPT !.effect_unit = Def(default_effect_unit[d + 1])]
                      ELSE @[d]]]
        \* set initial beatjump scale
        w3 == [w2 EXCEPT !.state.channel[0].beatjump_scalestep = 0,
                         !.state.channel[1].beatjump_scalestep = 0]
        \* set beatjump scale lights
        w4 == update_beatjump_shift_lights(update_beatjump_shift_lights(w3, 0), 1)
        \* set backspin length
        w5 == sendShortMsg(w4, \hBF, \h45, \h20)
        \* set brake light
        w6 == update_brake_light(w5)
        \* init head cue split
        w7 == update_head_split_light(w6, getValue(w6, "[Master]", "headSplit"))
        w8 == persistent(w7, "head_split", "[Master]", "headSplit",
                         "update_head_split_light")
        \* init current loop modifier state
        w9 == [w8 EXCEPT
                  !.state.channel[0].current_loop_modifier = loop_modifiers_none,
                  !.state.channel[1].current_loop_modifier = loop_modifiers_none]
        \* configure soft takeovers
        w10 == for_range(init_effect_unit, w9, 1,
                         getValue(w9, "[EffectRack1]", "num_effectunits"))
        w11 == for_range(init_soft_takeover, w10, 0, 3)
        \* connect initial channel <-> deck
    IN  for_range(connect_channel, w11, 0, 1)

\* shutdown, the body of the loop over state.persistent_connections
disconnect_persistent(w, conn) ==
    LET handle == w.state.persistent_connections[conn]
    IN  IF handle # Undefined THEN disconnect(w, Val(handle)) ELSE w

\* A shutdown that forgets the connections of init.
shutdown_channels_only(w) == disconnect_channel(disconnect_channel(w, 0), 1)

shutdown(w) ==
    LET w1 == for_in(disconnect_persistent, w, w.state.persistent_connections)
        w2 == [w1 EXCEPT !.state.persistent_connections = EmptyObject]
    IN  disconnect_channel(disconnect_channel(w2, 0), 1)

\* -------------------------------------------------------------- beat effects

\* A slider that may select any deck for the active unit.
keep_selected(w, enable, effect_unit) == enable

\* beat_fx_channel, the loop that clears the decks of another effect unit.
\* enable has the entries 0..num_decks, the last one for the master.
restrict_to_effect_unit(w, enable, effect_unit) ==
    [deck \in DOMAIN enable |->
        IF deck < get_num_decks(w) /\ get_deck_effect_unit(w, deck) # effect_unit
        THEN 0 ELSE enable[deck]]

\* switch_effect_slot(next): the focus of the unit of the effect deck moves
\* one slot on or back.  state.deck has the four decks; the focus is asked of
\* the host with engine.setValue.
switch_effect_slot(w, next) ==
    LET deck == get_effect_deck(w)
        unit == get_deck_effect_unit(w, deck)
        unit_group == get_effect_unit_group(unit)
        delta == IF next THEN 1 ELSE -1
        num_slots == get_num_effect_slots(w, unit)
        old_focus == get_focussed_effect(w, deck)
        moved == (old_focus - 1) + delta
        new_focus == IF old_focus # 0
                     THEN IF moved < 0 THEN moved + num_slots ELSE moved % num_slots
                     ELSE 0
    IN  IF deck \notin Decks THEN throw(w, "TypeError")
        ELSE setValue(w, unit_group, "focused_effect", new_focus + 1)

next_effect_slot(w, value) == IF value # 0 THEN switch_effect_slot(w, TRUE) ELSE w

prev_effect_slot(w, value) == IF value # 0 THEN switch_effect_slot(w, FALSE) ELSE w

\* PioneerDDJ400.beat_fx_channel(_channel, control, value): the slider that
\* selects the channel for the beat effects.
beat_fx_channel(w, control, value) ==
    IF value = 0 THEN w
    ELSE LET num_decks == get_num_decks(w)
             picked == CASE control = \h10 -> channel_to_deck(w, 0)
                         [] control = \h11 -> channel_to_deck(w, 1)
                         [] control = \h14 -> num_decks
                         [] OTHER -> num_decks + 1
             effect_unit == get_deck_effect_unit(w, get_effect_deck(w))
             enable == restrict_to_effect_unit(
                           w, [deck \in 0..num_decks |-> IF deck = picked THEN 1 ELSE 0],
                           effect_unit)
             w1 == for_range(LAMBDA v, deck :
                                 setValue(v, get_effect_unit_group(effect_unit),
                                          "group_[Channel" \o ToString(deck + 1)
                                              \o "]_enable",
                                          enable[deck]),
                             w, 0, num_decks - 1)
         IN  setValue(w1, get_effect_unit_group(effect_unit), "group_[Master]_enable",
                      enable[num_decks])

\* ------------------------------------------------------- the state machine

\* The controls whose value the engine changes during a session.
ChangingControls ==
    {<<g, c>> : g \in {"[Channel1]", "[Channel2]", "[Channel3]", "[Channel4]"},
                c \in {"loop_enabled", "play_indicator"}}
        \cup {<<get_effect_unit_group(Def(unit)), "focused_effect">> :
                  unit \in 1..NumEffectUnits}
        \cup {<<get_effect_group(Def(unit), slot), "enabled">> :
                  unit \in 1..NumEffectUnits, slot \in 1..NumEffectSlots}

\* The host before the script is loaded: no connections, no timers, no loop
\* active, nothing playing and the effects as the last session left them.
HostAtStartup(num_decks) ==
    [ values |-> [k \in {<<"[Master]", "num_decks">>} \cup ChangingControls |->
                     IF k[2] = "num_decks" THEN num_decks
                     ELSE StartupValue(k[1], k[2])],
      connections |-> {},
      timers |-> EmptyObject,
      scratching |-> {},
      rejected |-> {} ]

World == [state |-> state, engine |-> engine, midi |-> midi, calls |-> << >>]

\* The end of a turn: the world the handler left becomes the next state.
Commit(w) ==
    /\ state' = w.state
    /\ engine' = w.engine
    /\ midi' = w.midi
    /\ calls' = w.calls

\* The script file is loaded and init() has run.
Loaded(num_decks) ==
    init([state |-> DeclaredState, engine |-> HostAtStartup(num_decks),
          midi |-> EmptyObject, calls |-> << >>])

\* The script file is loaded and init() has run in a session in which the
\* loops of the decks in looping are active.
LoadedLooping(num_decks, looping) ==
    init([state |-> DeclaredState,
          engine |-> [HostAtStartup(num_decks) EXCEPT
                         !.values = [k \in DOMAIN @ |->
                                        IF k \in {<<deck_to_group(d), "loop_enabled">> :
                                                     d \in looping}
                                        THEN 1 ELSE @[k]]],
          midi |-> EmptyObject, calls |-> << >>])

\* The same with four decks and an engine that has no control for the pairs
\* in rejected.
LoadedRejecting(rejected) ==
    init([state |-> DeclaredState,
          engine |-> [HostAtStartup(4) EXCEPT !.rejected = rejected],
          midi |-> EmptyObject, calls |-> << >>])

\* The observer of the shift buttons.  Per channel: when the button was last
\* pressed (a timestamp, kept like the script's), whether that press came
\* more than the double press time after the press before it, and how often
\* shift_double_press ran since the script last took a reference timestamp,
\* counted up to 2.  last_pressed is the channel pressed most recently.
NothingSeen ==
    [ last_press |-> [c \in Channels |-> Undefined],
      separated |-> [c \in Channels |-> TRUE],
      fired |-> [c \in Channels |-> 0],
      last_pressed |-> Undefined ]

Fired(log, channel) ==
    \E i \in 1..Len(log) : log[i] = <<"shift_double_press", channel>>

SeenPress(channel) ==
    [history EXCEPT
        !.last_press[channel] = Def(Date_now),
        !.separated[channel] =
            \/ history.last_press[channel] = Undefined
            \/ Date_now - Val(history.last_press[channel]) > times_double_press,
        !.fired[channel] =
            IF within_double_press(Date_now, get_last_shift_time(World, channel))
            THEN @ ELSE 0,
        !.last_pressed = Def(channel)]

SeenRelease(channel, log) ==
    [history EXCEPT
        !.fired[channel] = IF Fired(log, channel) /\ @ < 2 THEN @ + 1 ELSE @]

\* The first state: the world w and an observer that has seen nothing.
StartsAs(w) ==
    /\ state = w.state
    /\ engine = w.engine
    /\ midi = w.midi
    /\ calls = w.calls
    /\ history = NothingSeen

Init == \E num_decks \in NumDecksChoices : StartsAs(Loaded(num_decks))

\* The shift button of a channel goes down (0x7F) or up (0).
ShiftPressed(channel, value) ==
    /\ (value = \h7F) # get_shift_button_pressed(World, channel)
    /\ Commit(shiftPressed(World, channel, value))
    /\ history' = IF value = \h7F THEN SeenPress(channel)
                  ELSE SeenRelease(channel, calls')

\* A pad is pressed or released.
PadInput(padchannel, control, value) ==
    /\ Commit(handle_pad(World, padchannel, control, value))
    /\ UNCHANGED history

LoopIn(channel, value) ==
    /\ Commit(loop_in(World, channel, value))
    /\ UNCHANGED history

LoopOut(channel, value) ==
    /\ Commit(loop_out(World, channel, value))
    /\ UNCHANGED history

\* The jog wheel of a channel is turned.
JogTurn(channel, value) ==
    /\ Commit(jogTurn(World, channel, value))
    /\ UNCHANGED history

\* The callbacks of the live connections to a control, one after the other.
deliver(w, conns, value) ==
    LET order == Enumerate(conns)
    IN  for_range(LAMBDA v, i : Callback(v, order[i].fun, value, order[i].group),
                  w, 1, Len(order))

\* The engine changes the value of a control and tells the connections.
EngineChange(group, control, value) ==
    /\ <<group, control>> \in DOMAIN engine.values
    /\ engine.values[<<group, control>>] # value
    /\ LET w == [World EXCEPT !.engine.values[<<group, control>>] = value]
           conns == {c \in w.engine.connections :
                        c.group = group /\ c.control = control}
       IN  Commit(deliver(w, conns, value))
    /\ UNCHANGED history

\* The engine sets a control to the value it has and tells the connections
\* again.
EngineRepeats(group, control) ==
    /\ <<group, control>> \in DOMAIN engine.values
    /\ Commit(deliver(World,
                      {c \in engine.connections :
                          c.group = group /\ c.control = control},
                      engine.values[<<group, control>>]))
    /\ UNCHANGED history

\* A live engine timer fires.
TimerFires(id) ==
    /\ id \in DOMAIN engine.timers
    /\ Commit(timer_callback(World, id))
    /\ UNCHANGED history

\* Time passes: every stored timestamp falls further behind Date.now().
Older(timestamp, ms) ==
    IF timestamp = Undefined THEN Undefined
    ELSE Def(IF Val(timestamp) - ms < Epoch THEN Epoch ELSE Val(timestamp) - ms)

TimePasses(ms) ==
    /\ \E c \in Channels :
           \/ /\ state.channel[c].shift_time # Undefined
              /\ Val(state.channel[c].shift_time) > Epoch
           \/ /\ history.last_press[c] # Undefined
              /\ Val(history.last_press[c]) > Epoch
    /\ state' = [state EXCEPT
                    !.channel = [c \in Channels |->
                        [@[c] EXCEPT !.shift_time = Older(@, ms)]]]
    /\ history' = [history EXCEPT
                      !.last_press = [c \in Channels |-> Older(@[c], ms)]]
    /\ calls' = << >>
    /\ UNCHANGED <<engine, midi>>

\* The inputs of the specifications.
\* The pad MIDI channels with shift, 8 of channel 0 and 10 of channel 1; the
\* beat jump pads without shift are inputs of SpecScale.
PadChannels == {8, 10}
Pressed == \h7F
Released == 0
\* Spec: deck switching by pad, the loop buttons, the engine and the timers.
SpecPads == {pad_modes_beat_jump + 0}
SpecChanges ==
    {<<deck_to_group(d), "loop_enabled">> : d \in {1, 2}}
        \cup {<<deck_to_group(d), "play_indicator">> : d \in {2}}
\* SpecShift: all inputs mixed, with the loop of one deck and no clock: every
\* shift press follows the one before at once.
ShiftChanges == {<<deck_to_group(2), "loop_enabled">>}

Next ==
    \/ \E pc \in PadChannels, ctl \in SpecPads, v \in {Released, Pressed} :
           PadInput(pc, ctl, v)
    \/ \E c \in Channels, v \in {Released, Pressed} : LoopIn(c, v)
    \/ \E c \in Channels, v \in {Released, Pressed} : LoopOut(c, v)
    \/ \E k \in SpecChanges, v \in {0, 1} : EngineChange(k[1], k[2], v)
    \/ \E id \in DOMAIN engine.timers : TimerFires(id)

Spec == Init /\ [][Next]_vars

NextShift ==
    \/ \E c \in Channels, v \in {Released, Pressed} : ShiftPressed(c, v)
    \/ \E pc \in PadChannels, ctl \in SpecPads, v \in {Released, Pressed} :
           PadInput(pc, ctl, v)
    \/ \E k \in ShiftChanges, v \in {0, 1} : EngineChange(k[1], k[2], v)
    \/ \E id \in DOMAIN engine.timers : TimerFires(id)

SpecShift == Init /\ [][NextShift]_vars

\* SpecGesture: the shift button of one channel and the clock.
GestureChannels == {0}

NextGesture ==
    \/ \E c \in GestureChannels, v \in {Released, Pressed} : ShiftPressed(c, v)
    \/ \E ms \in TimeSteps : TimePasses(ms)

SpecGesture == Init /\ [][NextGesture]_vars

\* SpecLoop: one channel with its loop buttons, its jog wheel turned one step
\* back or forward and its deck switch, and the loops of its two decks.
LoopChannels == {0}
JogValues == {63, 65}
LoopChanges == {<<deck_to_group(d), "loop_enabled">> : d \in {0, 2}}

NextLoop ==
    \/ \E c \in LoopChannels : PadInput(8 + 2 * c, pad_modes_beat_jump + 0, Pressed)
    \/ \E c \in LoopChannels, v \in {Released, Pressed} : LoopIn(c, v)
    \/ \E c \in LoopChannels, v \in {Released, Pressed} : LoopOut(c, v)
    \/ \E c \in LoopChannels, v \in JogValues : JogTurn(c, v)
    \/ \E k \in LoopChanges, v \in {0, 1} : EngineChange(k[1], k[2], v)
    \/ \E id \in DOMAIN engine.timers : TimerFires(id)

SpecLoop == Init /\ [][NextLoop]_vars

\* SpecScale: the beat jump pads.  With shift, the pads that switch the deck
\* (padnum 0) and step the scale down (6) and up (7) on both channels; without
\* shift, the first and the last jump of channel 0.
ScaleShiftPads == {0, 6, 7}
ScaleJumpPads == {0, 7}

NextScale ==
    \/ \E pc \in {8, 10}, padnum \in ScaleShiftPads, v \in {Released, Pressed} :
           PadInput(pc, pad_modes_beat_jump + padnum, v)
    \/ \E padnum \in ScaleJumpPads : PadInput(7, pad_modes_beat_jump + padnum, Pressed)

SpecScale == Init /\ [][NextScale]_vars

\* SpecReject: deck switching on an engine that lacks one control of the third
\* deck, one that connect_channel triggers or one that it does not.
RejectChoices == {<<"[Channel3]", "loop_enabled">>, <<"[Channel3]", "track_loaded">>}

InitReject == \E r \in RejectChoices : StartsAs(LoadedRejecting({r}))

NextReject ==
    \/ \E pc \in {8, 10} : PadInput(pc, pad_modes_beat_jump + 0, Pressed)
    \/ \E k \in LoopChanges, v \in {0, 1} : EngineChange(k[1], k[2], v)
    \/ \E id \in DOMAIN engine.timers : TimerFires(id)

SpecReject == InitReject /\ [][NextReject]_vars

\* SpecDecks: deck switching on an engine whose number of decks changes
\* after init.
DeckCounts == {4, 6}

NextDecks ==
    \/ \E pc \in {8, 10} : PadInput(pc, pad_modes_beat_jump + 0, Pressed)
    \/ \E n \in DeckCounts : EngineChange("[Master]", "num_decks", n)

SpecDecks == Init /\ [][NextDecks]_vars

\* SpecRepeat: SpecLoop with an engine that may tell the callbacks of
\* loop_enabled its value again.
NextRepeat ==
    \/ NextLoop
    \/ \E k \in LoopChanges : EngineRepeats(k[1], k[2])

SpecRepeat == Init /\ [][NextRepeat]_vars

\* ------------------------------------------------------------ observations

\* The world at the end of the last turn, with the log of its host calls.
Now == [state |-> state, engine |-> engine, midi |-> midi, calls |-> calls]

\* The world a step leaves.
WorldAfter == [state |-> state', engine |-> engine', midi |-> midi', calls |-> calls']

\* The live engine timers whose callback blinks the lights of a channel.
LiveTimers(w, channel) ==
    {id \in DOMAIN w.engine.timers : w.engine.timers[id].channel = channel}

\* The live engine connections stored under state.connections[channel].
LiveConnections(w, channel) == {conn \in w.engine.connections : conn.owner = Def(channel)}

\* A connection watches a control of the deck, or one of the deck's samplers.
Observes(conn, deck) ==
    IF conn.fun = "update_sampler"
    THEN /\ conn.control = "track_loaded"
         /\ \E padnum \in 0..(NumSamplerPads - 1) : conn.group = sampler_groups(deck, padnum)
    ELSE conn.group = deck_to_group(deck)

IsPrint(entry, message) == entry[1] = "print" /\ entry[2][1] = message

\* The position in the log of the print of connect_channel(channel), 0 if none.
Connecting(log, channel) ==
    IF \E j \in 1..Len(log) : IsPrint(log[j], "Connecting") /\ log[j][2][2] = channel
    THEN CHOOSE j \in 1..Len(log) : IsPrint(log[j], "Connecting") /\ log[j][2][2] = channel
    ELSE 0

\* The last turn ran toggle_deck_channel(channel) up to its end.
Toggled(w, channel) ==
    /\ \E i \in 1..Len(w.calls) : IsPrint(w.calls[i], "Toggling deck")
    /\ Connecting(w.calls, channel) # 0

On(value) == IF value # 0 THEN \h7F ELSE 0

\* The value last sent to a light of a channel, Undefined if none was sent.
Light(w, channel, midi_out) ==
    IF <<midi_out.status + channel, midi_out.data1>> \in DOMAIN w.midi
    THEN Def(w.midi[<<midi_out.status + channel, midi_out.data1>>])
    ELSE Undefined

PadLight(w, channel, mode, padnum, shift) ==
    Light(w, 0, [status |-> \h97 + 2 * channel + (IF shift THEN 1 ELSE 0),
                 data1 |-> mode + padnum])

\* ------------------------------------------------------------------ claims

\* C1: binding exclusivity.  With 4 decks, in every state that shift presses
\* and releases, deck toggles by pad, engine callbacks and timer firings can
\* reach, the two channels are bound to different decks.
BindingExclusivity ==
    get_num_decks(World) = 4 => state.channel_mapping[0] # state.channel_mapping[1]

\* Both channels have been switched to their second deck, channel 0 by a
\* double press of its shift button.
BothChannelsSwitched ==
    /\ get_num_decks(World) = 4
    /\ state.channel_mapping[0] = 2
    /\ state.channel_mapping[1] = 3
    /\ history.fired[0] = 1

\* C2: subscription consistency.  At the end of every turn every connection
\* stored in state.connections[c] is live and watches the deck bound to c (its
\* group, or one of its samplers), and no live connection made for c watches
\* another deck.
SubscriptionConsistency ==
    \A c \in Channels :
        /\ \A key \in DOMAIN state.connections[c] :
               state.connections[c][key] # Undefined =>
                   /\ Val(state.connections[c][key]) \in engine.connections
                   /\ Observes(Val(state.connections[c][key]), state.channel_mapping[c])
        /\ \A conn \in LiveConnections(World, c) :
               /\ Observes(conn, state.channel_mapping[c])
               /\ Has(state.connections[c], conn.key)
               /\ state.connections[c][conn.key] = Def(conn)

\* Channel 0 has just been switched to deck 2, and its connections are those
\* to deck 2 while a loop is active there.
SubscribedToSecondDeck ==
    /\ state.channel_mapping[0] = 2
    /\ Toggled(Now, 0)
    /\ getValue(World, "[Channel3]", "loop_enabled") = 1
    /\ Cardinality(LiveConnections(World, 0)) =
           Len(output_control_to_function) + NumSamplerPads

\* C3: timer singularity.  A channel never has more than one live blink
\* timer, and the handle of every live timer of a channel is the one stored
\* in state.timers of that channel.
TimerSingularity ==
    \A c \in Channels :
        /\ Cardinality(LiveTimers(World, c)) <= 1
        /\ \A id \in LiveTimers(World, c) : TimerOf(World, c) = Def(id)

\* Both channels blink, channel 0 on deck 2 with the loop in point being
\* adjusted: its timer was armed in place of the one of the active loop.
BothChannelsBlink ==
    /\ state.channel_mapping[0] = 2
    /\ \E id \in LiveTimers(World, 0) : engine.timers[id].kind = "in"
    /\ LiveTimers(World, 1) # {}

\* C4: a rebind has no overlap window.  In a turn that changes the deck of
\* channel c, every timer and every connection c had is stopped or
\* disconnected while c is still bound to the old deck, before
\* connect_channel starts; no connection is made and no timer begun before
\* that, and nothing is stopped or disconnected after it.
RebindWithoutOverlap ==
    [][\A c \in Channels :
           state.channel_mapping[c] # state'.channel_mapping[c] =>
               LET log == calls'
                   start == Connecting(log, c)
                   old_group == deck_to_group(state.channel_mapping[c])
               IN  /\ start # 0
                   /\ log[start][2][3] = state'.channel_mapping[c]
                   /\ \A id \in LiveTimers(World, c) :
                          \E k \in 1..(start - 1) : log[k] = <<"stopTimer", id>>
                   /\ \A conn \in LiveConnections(World, c) :
                          \E k \in 1..(start - 1) :
                              log[k] = <<"disconnect", conn.owner, conn.group,
                                         conn.control>>
                   /\ \E v \in 1..(start - 1) :
                          /\ log[v] = <<"softTakeoverIgnoreNextValue", old_group,
                                        "volume">>
                          /\ \A k \in 1..Len(log) :
                                 log[k][1] \in {"stopTimer", "disconnect"} => k < v
                   /\ \A k \in 1..(start - 1) :
                          log[k][1] \notin {"makeConnection", "beginTimer"}
                   /\ LiveTimers(WorldAfter, c) \cap LiveTimers(World, c) = {}
                   /\ \A conn \in LiveConnections(WorldAfter, c) :
                          \E k \in (start + 1)..Len(log) :
                              log[k] = <<"makeConnection", conn.owner, conn.group,
                                         conn.control>>
      ]_vars

\* A rebind has stopped the blink timer of the old deck.
RebindStoppedTimer ==
    /\ \E c \in Channels : Toggled(Now, c)
    /\ \E k \in 1..Len(calls) : calls[k][1] = "stopTimer"

BeatloopControls ==
    << "beatloop_0.25_enabled", "beatloop_0.5_enabled", "beatloop_1_enabled",
       "beatloop_2_enabled", "beatloop_4_enabled", "beatloop_8_enabled",
       "beatloop_16_enabled", "beatloop_32_enabled" >>

LoopLights == {lights_loop_in, lights_loop_out, lights_shift_loop_in, lights_shift_loop_out}

\* Every indicator of channel c shows the engine's values for the deck of c.
ShowsDeck(w, c) ==
    LET deck == w.state.channel_mapping[c]
        group == deck_to_group(deck)
        Shows(midi_out, control) ==
            Light(w, c, midi_out) = Def(On(getValue(w, group, control)))
    IN  /\ Shows(lights_play_pause, "play_indicator")
        /\ Shows(lights_shift_play_pause, "play_indicator")
        /\ Shows(lights_cue, "cue_indicator")
        /\ Shows(lights_shift_cue, "cue_indicator")
        /\ Shows(lights_beatsync, "sync_enabled")
        /\ Shows(lights_shift_beatsync, "sync_master")
        /\ Shows(lights_headphone_cue, "pfl")
        /\ Shows(lights_shift_headphone_cue, "quantize")
        /\ PadLight(w, c, pad_modes_beat_jump, 3, TRUE)
               = Def(On(getValue(w, group, "keylock")))
        /\ Shows(lights_reloop, "loop_enabled")
        /\ Shows(lights_shift_reloop, "loop_enabled")
        /\ IF getValue(w, group, "loop_enabled") = 0
           THEN /\ \A l \in LoopLights : Light(w, c, l) = Def(\h7F)
                /\ LiveTimers(w, c) = {}
           ELSE /\ \A l \in LoopLights : Light(w, c, l) = Def(0)
                /\ \E id \in LiveTimers(w, c) :
                       /\ LiveTimers(w, c) = {id}
                       /\ TimerOf(w, c) = Def(id)
                       /\ w.engine.timers[id] =
                              [period |-> times_loop_active, kind |-> "both",
                               channel |-> c, blink_state |-> FALSE]
        /\ \A padnum \in 0..7 :
               /\ PadLight(w, c, pad_modes_beat_loop, padnum, FALSE)
                      = Def(On(getValue(w, group, BeatloopControls[padnum + 1])))
               /\ PadLight(w, c, pad_modes_hot_cue, padnum, FALSE)
                      = Def(On(getValue(w, group,
                               "hotcue_" \o ToString(padnum + 1) \o "_enabled")))
               /\ PadLight(w, c, pad_modes_hot_cue, padnum, TRUE)
                      = PadLight(w, c, pad_modes_hot_cue, padnum, FALSE)
        /\ PadLight(w, c, pad_modes_beat_jump, 0, TRUE)
               = Def(IF deck = primary_deck[c + 1] THEN \h7F ELSE 0)

\* C5: rebind resynchronization.  When toggle_deck_channel(c) has returned,
\* every indicator of c shows what the engine holds for the new deck: play,
\* cue, sync, sync master, headphone cue, quantize, keylock, reloop, the loop
\* in and out lights with their blink timer, the beatloop pads, the hotcue
\* pads and the pad that tells the primary deck.
RebindResynchronizes == \A c \in Channels : Toggled(Now, c) => ShowsDeck(Now, c)

\* Channel 0 has just been switched to deck 2, where a loop is active and
\* the track plays.
SwitchedToLoopingDeck ==
    /\ Toggled(Now, 0)
    /\ state.channel_mapping[0] = 2
    /\ getValue(World, "[Channel3]", "loop_enabled") = 1
    /\ getValue(World, "[Channel3]", "play_indicator") = 1

\* The midi status bytes of the lights and pads of channel c.
ChannelStatus(c) == {\h90 + c, \hB0 + c, \h97 + 2 * c, \h98 + 2 * c}

ScalePads(c) == {<<\h98 + 2 * c, pad_modes_beat_jump + 6>>, <<\h98 + 2 * c, pad_modes_beat_jump + 7>>}

Indicators(w, c) ==
    [ lights |-> [a \in {b \in DOMAIN w.midi : b[1] \in ChannelStatus(c)} \ ScalePads(c)
                     |-> w.midi[a]],
      timers |-> {[period |-> w.engine.timers[id].period,
                   kind |-> w.engine.timers[id].kind,
                   blink_state |-> w.engine.timers[id].blink_state] :
                      id \in LiveTimers(w, c)},
      stored |-> {TimerOf(w, c) # Undefined} ]

\* init() in a session that starts with the given bindings and engine values.
StartedWith(channel_mapping, values) ==
    init([state |-> [DeclaredState EXCEPT !.channel_mapping = channel_mapping],
          engine |-> [HostAtStartup(4) EXCEPT !.values = values],
          midi |-> EmptyObject, calls |-> << >>])

DoublePressSwitchesOneSide ==
    [][\A c \in Channels :
           Fired(calls', c) =>
               /\ state'.channel_mapping[1 - c] = state.channel_mapping[1 - c]
               /\ get_num_decks(World) = 4 =>
                      /\ state'.channel_mapping[c] = (state.channel_mapping[c] + 2) % 4
                      /\ (c = 0 /\ state.channel_mapping[0] = 0) =>
                             state'.channel_mapping[0] = 2
                      /\ Cardinality(LiveConnections(WorldAfter, c)) =
                             Len(output_control_to_function) + NumSamplerPads
                      /\ \A conn \in LiveConnections(WorldAfter, c) :
                             /\ Observes(conn, state'.channel_mapping[c])
                             /\ state'.connections[c][conn.key] = Def(conn)
      ]_vars

\* The first double press of a session, on channel 0: it is bound to deck 2
\* and channel 1 still to deck 1.
FirstDoublePressSwitched ==
    /\ get_num_decks(World) = 4
    /\ Fired(calls, 0)
    /\ state.channel_mapping[0] = 2
    /\ state.channel_mapping[1] = 1
    /\ history.fired[0] = 1
    /\ history.fired[1] = 0

\* C8: the double press window.  shift_double_press runs only when a shift
\* button is released, and never when the last two presses of the button were
\* more than the double press time apart.  The release 200 ms after a press
\* that took the reference timestamp and 50 ms after the press that followed
\* it runs shift_double_press, for the first time since that reference.
DoublePressWindow ==
    [][\A c \in Channels :
           /\ Fired(calls', c) =>
                  /\ get_shift_button_pressed(World, c)
                  /\ ~get_shift_button_pressed(WorldAfter, c)
                  /\ ~history.separated[c]
           /\ ( /\ get_shift_button_pressed(World, c)
                /\ ~get_shift_button_pressed(WorldAfter, c)
                /\ state.channel[c].shift_time = Def(Date_now - 200)
                /\ history.last_press[c] = Def(Date_now - 50)
                /\ history.fired[c] = 0 )
              => (Fired(calls', c) /\ history'.fired[c] = 1)
      ]_vars

\* The second release of the gesture, 200 ms after its first press.
SecondReleaseFired ==
    /\ Fired(calls, 0)
    /\ state.channel[0].shift_time = Def(Date_now - 200)
    /\ history.last_press[0] = Def(Date_now - 50)
    /\ history.fired[0] = 1

\* C9: reset on firing.  shift_double_press runs at most once for a reference
\* timestamp: once it has run, a further press and release inside the window
\* of that reference do not run it again.
OneRebindPerGesture == \A c \in Channels : history.fired[c] <= 1

\* C10: last_shift_button_pressed is the channel whose shift button was
\* pressed most recently; releasing a button does not change it.
LastPressedChannel ==
    history.last_pressed # Undefined =>
        state.last_shift_button_pressed = Val(history.last_pressed)

\* A turn toggled the channel from another deck onto deck d.
ReboundTo(c, d) ==
    /\ Toggled(WorldAfter, c)
    /\ state.channel_mapping[c] # d
    /\ state'.channel_mapping[c] = d

LoopActive(d) == engine.values[<<deck_to_group(d), "loop_enabled">>] # 0

\* C11: the loop adjust state survives rebinding.  A deck that no channel is
\* bound to and that was left in adjusting-in or adjusting-out is still in that
\* state when a channel is bound back to it while its loop is active.
LoopAdjustSurvivesRebind ==
    [][ \A c \in Channels, d \in Decks :
            ( /\ ReboundTo(c, d)
              /\ LoopActive(d)
              /\ state.deck[d].loop_adjust \in
                     {Def(loop_modifiers_adjust_in), Def(loop_modifiers_adjust_out)} )
              => state'.deck[d].loop_adjust = state.deck[d].loop_adjust
      ]_vars

LoopPositions == {"loop_start_position", "loop_end_position"}

\* The host calls of a jog wheel turn of the channel in world w.
JogCalls(w, channel, value) == jogTurn([w EXCEPT !.calls = << >>], channel, value).calls

\* C12: loop adjust mode exits on a deck switch.  When channel c leaves a deck
\* d that is in loop-in or loop-out adjust mode, the turn stops the blink
\* timer of c and leaves c with none but the timer that blinks both lights,
\* and a jog turn on c then asks nothing of the group of d.  Loop points are
\* only ever moved on a deck that a channel is bound to, and the turn that
\* switches c back to a deck leaves that deck's loop adjust state none.
AdjustExitsOnDeckSwitch ==
    [][ /\ \A c \in Channels, d \in Decks :
               ( /\ state.channel_mapping[c] = d
                 /\ state'.channel_mapping[c] # d
                 /\ get_loop_adjust_state(World, d) # loop_modifiers_none )
               => /\ \A id \in LiveTimers(World, c) :
                         \E k \in 1..Len(calls') : calls'[k] = <<"stopTimer", id>>
                  /\ \A id \in LiveTimers(WorldAfter, c) :
                         engine'.timers[id].kind = "both"
                  /\ \A v \in JogValues :
                         LET log == JogCalls(WorldAfter, c, v)
                         IN  /\ Len(log) = 1
                             /\ log[1][2] # deck_to_group(d)
                             /\ log[1][3] \notin LoopPositions
        /\ \A k \in 1..Len(calls') :
               (calls'[k][1] = "setValue" /\ calls'[k][3] \in LoopPositions)
               => is_group_active(WorldAfter, calls'[k][2])
        /\ \A c \in Channels, d \in Decks :
               ReboundTo(c, d) => state'.deck[d].loop_adjust = Def(loop_modifiers_none)
      ]_vars

\* Channel 0 left deck 0 in loop-in adjust mode for deck 2, and its jog wheel
\* was then turned one step forward: the turn went to deck 2 as a jog.
JogAfterLeavingAdjustedDeck ==
    /\ state.channel_mapping[0] = 2
    /\ state.deck[0].loop_adjust = Def(loop_modifiers_adjust_in)
    /\ LoopActive(0)
    /\ calls = << <<"setValue", "[Channel3]", "jog", <<8, 10>> >> >>

\* A loop button of the channel is pressed and released.
Request(button(_, _, _), w, channel) == button(button(w, channel, Pressed), channel, Released)

\* The loop adjust state of the deck of a channel after two requests.
AfterRequests(first(_, _, _), second(_, _, _), channel) ==
    LET w == Request(second, Request(first, World, channel), channel)
    IN  get_loop_adjust_state(w, channel_to_deck(w, channel))

\* What two requests make of the loop adjust state none.
TogglesAndReplaces(channel) ==
    /\ AfterRequests(loop_in, loop_in, channel) = loop_modifiers_none
    /\ AfterRequests(loop_in, loop_out, channel) = loop_modifiers_adjust_out
    /\ AfterRequests(loop_out, loop_out, channel) = loop_modifiers_none
    /\ AfterRequests(loop_out, loop_in, channel) = loop_modifiers_adjust_in

\* C13 as stated: for the deck of a channel in loop adjust state none, two
\* loop-in requests end in none and a loop-in request followed by a loop-out
\* request ends in adjusting-out; the same with in and out exchanged.
LoopAdjustToggleAlways ==
    \A c \in Channels :
        get_loop_adjust_state(Now, channel_to_deck(Now, c)) = loop_modifiers_none
            => TogglesAndReplaces(c)

\* C13, amended: the same for the deck of a channel whose loop is active.
\* With no loop active the buttons set the loop points and the state stays
\* none.
LoopAdjustToggle ==
    \A c \in Channels :
        ( /\ get_loop_adjust_state(Now, channel_to_deck(Now, c)) = loop_modifiers_none
          /\ LoopActive(channel_to_deck(Now, c)) )
            => TogglesAndReplaces(c)

\* A second request has ended the adjust mode of channel 0: the deck's loop is
\* active, its state is none again, and the turn replaced the adjust timer by
\* the timer that blinks both lights.
SecondRequestEndedAdjust ==
    /\ LoopActive(channel_to_deck(Now, 0))
    /\ get_loop_adjust_state(Now, channel_to_deck(Now, 0)) = loop_modifiers_none
    /\ Len(calls) = 6
    /\ calls[1][1] = "stopTimer"
    /\ calls[2] = <<"beginTimer", 0, times_loop_active>>

\* C14: the not-looping rule.  At the end of every turn, a channel whose
\* deck has no active loop has no blink timer, neither in the engine nor in
\* state.timers, its loop-in and loop-out lights of both layers were last
\* switched on, and the loop adjust state of its deck is none.
NotLoopingRule ==
    \A c \in Channels :
        ~LoopActive(channel_to_deck(Now, c)) =>
            /\ LiveTimers(Now, c) = {}
            /\ TimerOf(Now, c) = Undefined
            /\ \A light \in LoopLights : Light(Now, c, light) = Def(\h7F)
            /\ get_loop_adjust_state(Now, channel_to_deck(Now, c)) = loop_modifiers_none

\* The loop of the deck of channel 0 has just ended: the callback of
\* loop_enabled stopped the blink timer and stored the state none.
LoopEndStoppedTimer ==
    /\ ~LoopActive(channel_to_deck(Now, 0))
    /\ state.deck[channel_to_deck(Now, 0)].loop_adjust = Def(loop_modifiers_none)
    /\ state.channel[0].current_loop_modifier = loop_modifiers_none
    /\ Len(calls) > 0
    /\ calls[1][1] = "stopTimer"
    /\ \A k \in 1..Len(calls) : calls[k][1] # "print"

\* The channel's deck has an active loop and the given loop adjust state.
Looping(w, c, modifier) ==
    /\ get_loop_active(w, channel_to_group(w, c)) # 0
    /\ get_loop_adjust_state(w, channel_to_deck(w, c)) = modifier

\* The messages a firing of timer id sends, as <<status, data1, value>>.
BlinkSends(w, id) ==
    LET log == timer_callback([w EXCEPT !.calls = << >>], id).calls
    IN  {<<log[k][2], log[k][3], log[k][4]>> : k \in 1..Len(log)}

\* A firing of timer id sets exactly the given lights of channel c to value.
BlinkSets(w, id, c, lit, value) ==
    BlinkSends(w, id) = {<<light.status + c, light.data1, value>> : light \in lit}

\* Timer id blinks the given lights of channel c: its firings set them all,
\* and no other light, to one value, on and off in turn.
Blinks(w, id, c, lit) ==
    /\ BlinkSets(w, id, c, lit, \h7F) \/ BlinkSets(w, id, c, lit, 0)
    /\ BlinkSets(w, id, c, lit, \h7F) =
           ~BlinkSets(timer_callback(w, id), id, c, lit, \h7F)
    /\ BlinkSets(w, id, c, lit, 0) = ~BlinkSets(timer_callback(w, id), id, c, lit, 0)

\* The channel has exactly one timer, held in state.timers, of that period.
OneTimer(w, c, period) ==
    /\ Cardinality(LiveTimers(w, c)) = 1
    /\ \A id \in LiveTimers(w, c) :
           /\ TimerOf(w, c) = Def(id)
           /\ w.engine.timers[id].period = period

\* The turn neither stopped nor began a timer, nor sent a message to a loop-in
\* or loop-out light of the channel.
LeftBlinking(log, c) ==
    \A k \in 1..Len(log) :
        /\ log[k][1] \notin {"stopTimer", "beginTimer"}
        /\ log[k][1] = "sendShortMsg" =>
               \A light \in LoopLights :
                   <<log[k][2], log[k][3]>> # <<light.status + c, light.data1>>

\* C15: looping with loop adjust state none.  The channel has exactly one
\* timer, of the loop_active period, whose firings set the four loop-in and
\* loop-out lights together to one value, on and off in turn.  A turn that
\* finds the channel in this mode and leaves it there, and is neither a firing
\* of the timer nor a switch of the deck, keeps the timer as it is and sends
\* nothing to the four lights.
LoopingRule ==
    [][\A c \in Channels :
           /\ Looping(World, c, loop_modifiers_none) =>
                  /\ OneTimer(World, c, times_loop_active)
                  /\ \A id \in LiveTimers(World, c) : Blinks(World, id, c, LoopLights)
           /\ ( /\ Looping(World, c, loop_modifiers_none)
                /\ Looping(WorldAfter, c, loop_modifiers_none)
                /\ ~Toggled(WorldAfter, c)
                /\ \A id \in LiveTimers(World, c) \cap LiveTimers(WorldAfter, c) :
                       engine'.timers[id].blink_state = engine.timers[id].blink_state )
              => /\ LeftBlinking(calls', c)
                 /\ LiveTimers(WorldAfter, c) = LiveTimers(World, c)
                 /\ state'.timers[c] = state.timers[c]
      ]_vars

\* The engine told channel 0 again that its loop is active while the timer
\* for the state none was running: the turn sent the reloop lights only.
RecomputedWhileBlinking ==
    /\ Looping(Now, 0, loop_modifiers_none)
    /\ OneTimer(Now, 0, times_loop_active)
    /\ Len(calls) = 2
    /\ calls[1] = <<"sendShortMsg", lights_reloop.status + 0, lights_reloop.data1, \h7F>>

\* C16: looping with loop adjust state adjusting-in.  The channel has exactly
\* one timer, of the loop_adjust period, whose firings set the two loop-in
\* lights and nothing else, on and off in turn, and the two loop-out lights
\* are off in every such state.  For adjusting-out the same with in and out
\* exchanged.
AdjustingRule ==
    \A c \in Channels :
        /\ Looping(Now, c, loop_modifiers_adjust_in) =>
               /\ OneTimer(Now, c, times_loop_adjust)
               /\ \A id \in LiveTimers(Now, c) :
                      Blinks(Now, id, c, {lights_loop_in, lights_shift_loop_in})
               /\ Light(Now, c, lights_loop_out) = Def(0)
               /\ Light(Now, c, lights_shift_loop_out) = Def(0)
        /\ Looping(Now, c, loop_modifiers_adjust_out) =>
               /\ OneTimer(Now, c, times_loop_adjust)
               /\ \A id \in LiveTimers(Now, c) :
                      Blinks(Now, id, c, {lights_loop_out, lights_shift_loop_out})
               /\ Light(Now, c, lights_loop_in) = Def(0)
               /\ Light(Now, c, lights_shift_loop_in) = Def(0)

\* The timer of channel 0 has just fired in the mode adjusting-in and lit the
\* two loop-in lights.
AdjustTimerLitLoopIn ==
    /\ Looping(Now, 0, loop_modifiers_adjust_in)
    /\ Len(calls) = 2
    /\ calls[1] = <<"sendShortMsg", lights_loop_in.status + 0, lights_loop_in.data1, \h7F>>
    /\ Light(Now, 0, lights_shift_loop_in) = Def(\h7F)

ScaleStep(w, c) == w.state.channel[c].beatjump_scalestep

\* The 7th pad of the channel is pressed with shift in beat jump mode.
Decrease(w, c) == handle_pad(w, 8 + 2 * c, pad_modes_beat_jump + 6, Pressed)

\* C17: the scale bounds.  The beatjump_scalestep of each channel is -1, 0 or
\* 1 in every state that presses and releases of the scale pads and deck
\* switches reach; from 0, three presses of the decrease pad end at -1; and
\* the release of a pad changes nothing.
ScaleBounds ==
    \A c \in Channels :
        /\ ScaleStep(Now, c) \in {-1, 0, 1}
        /\ ScaleStep(Now, c) = 0 =>
               ScaleStep(Decrease(Decrease(Decrease(World, c), c), c), c) = -1
        /\ \A padnum \in ScaleShiftPads :
               handle_pad(World, 8 + 2 * c, pad_modes_beat_jump + padnum, Released) = World

\* Channel 0, switched to deck 2, has its scale at the lower end, and the last
\* pad message changed nothing.
ScaleAtLowerEnd ==
    /\ state.channel_mapping[0] = 2
    /\ ScaleStep(Now, 0) = -1
    /\ calls = << >>

\* C18: the scale indicators.  In every state from init on, the light of the
\* 7th shift pad of a channel is on iff its beatjump_scalestep is above -1 and
\* the light of its 8th shift pad is on iff the step is below 1.
ScaleIndicators ==
    \A c \in Channels :
        /\ PadLight(Now, c, pad_modes_beat_jump, 6, TRUE)
               = Def(IF ScaleStep(Now, c) > -1 THEN \h7F ELSE 0)
        /\ PadLight(Now, c, pad_modes_beat_jump, 7, TRUE)
               = Def(IF ScaleStep(Now, c) < 1 THEN \h7F ELSE 0)

\* The scale of channel 1 has just been stepped up to the upper end: the turn
\* switched the light of the 8th shift pad off.
ScaleSteppedToUpperEnd ==
    /\ ScaleStep(Now, 1) = 1
    /\ Len(calls) = 2
    /\ PadLight(Now, 1, pad_modes_beat_jump, 7, TRUE) = Def(0)
    /\ PadLight(Now, 1, pad_modes_beat_jump, 6, TRUE) = Def(\h7F)

\* Every declared control of the deck of channel c, and every sampler of the
\* deck, has a live connection that state.connections[c] holds.
FullyConnected(w, c) ==
    LET deck == channel_to_deck(w, c)
        held == {Val(w.state.connections[c][key]) :
                    key \in {k \in DOMAIN w.state.connections[c] :
                                w.state.connections[c][k] # Undefined}}
    IN  /\ held \subseteq LiveConnections(w, c)
        /\ \A i \in 1..Len(output_control_to_function) :
               \E conn \in held :
                   /\ conn.group = deck_to_group(deck)
                   /\ conn.control = output_control_to_function[i].control
        /\ \A padnum \in 0..(NumSamplerPads - 1) :
               \E conn \in held : conn.group = sampler_groups(deck, padnum)

\* The channel holds no connection and no handle at all.
Unconnected(w, c) ==
    /\ LiveConnections(w, c) = {}
    /\ w.state.connections[c] = EmptyObject

\* The turn reported a failure: it ended with an exception.
ReportedFailed(w) == Thrown(w)

\* C19: all or nothing on a rebind.  After a turn that switched the deck of
\* channel c, either every declared control is connected for the new deck, or
\* the switch was reported as failed and the channel holds no connections, even
\* when the engine rejected a registration.
RebindAllOrNothing ==
    \A c \in Channels :
        Toggled(Now, c) =>
            \/ FullyConnected(Now, c)
            \/ ReportedFailed(Now) /\ Unconnected(Now, c)

\* A deck number that state.deck and constants.sampler_groups have an entry
\* for.
ValidDeck(deck) == deck \in Decks

\* The turn tore down a timer or a connection the channel had.
TornDown(c) ==
    \/ \E k \in 1..Len(calls') :
           calls'[k][1] = "disconnect" /\ calls'[k][2] = Def(c)
    \/ \E id \in LiveTimers(World, c) : id \notin DOMAIN engine'.timers
    \/ LiveConnections(World, c) \ LiveConnections(WorldAfter, c) # {}

\* C20: an invalid binding is rejected.  While the next deck of channel c is
\* no valid deck, no turn changes channel_mapping[c] or tears down a timer or
\* a connection of c.
InvalidBindingRejected ==
    [][ \A c \in Channels :
            ~ValidDeck(next_deck(World, c, channel_to_deck(World, c)))
                => /\ state'.channel_mapping[c] = state.channel_mapping[c]
                   /\ ~TornDown(c)
      ]_vars

\* --------------------------------------------------------------- reverse lookup

\* C21: deck_to_channel(deck) is the channel bound to the deck when there is
\* one, and a result that is no channel when no channel is bound to the deck;
\* it is never a channel bound to a different deck.
ReverseLookupOrNone ==
    \A deck \in Decks :
        LET channel == deck_to_channel(Now, deck)
        IN  IF is_deck_active(Now, deck)
            THEN channel \in Channels /\ channel_to_deck(Now, channel) = deck
            ELSE channel \notin Channels

\* ------------------------------------------------------------------ rotation

\* The binding after toggle_deck_channel(c) ran twice from the current state.
ToggledTwice(c) ==
    toggle_deck_channel(toggle_deck_channel(Now, c), c).state.channel_mapping

\* With 4 decks channel 0 is on deck 0 or 2 and channel 1 on deck 1 or 3.
DisjointSubsets ==
    get_num_decks(Now) = 4 =>
        /\ state.channel_mapping[0] \in {0, 2}
        /\ state.channel_mapping[1] \in {1, 3}

\* C22 as stated: the next deck is the old deck plus half the number of
\* decks, modulo the number of decks; with 4 decks channel 0 is only on decks
\* 0 and 2 and channel 1 only on decks 1 and 3; toggling a channel twice
\* restores its binding.
RotationByHalf ==
    LET total == get_num_decks(Now)
    IN  /\ \A c \in Channels, old \in 0..(total - 1) :
               next_deck(Now, c, old) = (old + total \div 2) % total
        /\ DisjointSubsets
        /\ \A c \in Channels : ToggledTwice(c) = state.channel_mapping

\* C22: the next deck is the old deck plus 2, modulo the number of decks.
\* With 4 decks channel 0 is only on decks 0 and 2 and channel 1 only on decks
\* 1 and 3, and toggling a channel twice restores its binding; with 2 decks a
\* toggle leaves the binding as it is.
RotationByTwo ==
    LET total == get_num_decks(Now)
    IN  /\ \A c \in Channels, old \in 0..(total - 1) :
               next_deck(Now, c, old) = (old + 2) % total
        /\ DisjointSubsets
        /\ \A c \in Channels :
               /\ total = 4 => ToggledTwice(c) = state.channel_mapping
               /\ total = 2 =>
                      toggle_deck_channel(Now, c).state.channel_mapping
                          = state.channel_mapping

\* With 4 decks, the last turn switched channel 1 back from deck 3 to deck 1
\* while channel 0 is on deck 2.
RotatedBack ==
    /\ get_num_decks(Now) = 4
    /\ Toggled(Now, 1)
    /\ state.channel_mapping = (0 :> 2 @@ 1 :> 1)

\* ------------------------------------------------------------- effect light

\* SpecFx: the shift buttons, whose double press switches the deck, and an
\* engine that changes the focus of the first effect unit and enables and
\* disables the second effect of the first unit and the first of the second.
FxChanges ==
    {<<get_effect_unit_group(Def(1)), "focused_effect">>,
     <<get_effect_group(Def(1), 2), "enabled">>,
     <<get_effect_group(Def(2), 1), "enabled">>}

FxValues(control) == IF control = "focused_effect" THEN {1, 2} ELSE {0, 1}

NextFx ==
    \/ \E c \in Channels, v \in {Released, Pressed} : ShiftPressed(c, v)
    \/ \E k \in FxChanges : \E v \in FxValues(k[2]) : EngineChange(k[1], k[2], v)

SpecFx == Init /\ [][NextFx]_vars

\* The deck of the channel whose shift button had the last edge.
ActiveDeck(w) == w.state.channel_mapping[w.state.last_shift_button_pressed]

\* The unit the table of default units gives a deck.
ActiveUnit(w) == default_effect_unit[ActiveDeck(w) + 1]

\* Whether the focused effect of a unit is enabled.
FocusedEnabled(w, unit) ==
    getValue(w, get_effect_group(Def(unit),
                                 getValue(w, get_effect_unit_group(Def(unit)),
                                          "focused_effect")),
             "enabled") # 0

\* C23: the active deck is the deck of the channel in
\* last_shift_button_pressed and the active effect unit is the unit the table
\* gives that deck, unit 1 for decks 0 and 1 and unit 2 for decks 2 and 3;
\* after every turn the beat FX light is on exactly when the focused effect of
\* the active unit is enabled, whether the turn changed
\* last_shift_button_pressed, switched the deck of a channel or changed the
\* focus or an enabled state.
FxLightShowsActiveUnit ==
    /\ get_effect_deck(Now) = ActiveDeck(Now)
    /\ get_deck_effect_unit(Now, ActiveDeck(Now)) = Def(ActiveUnit(Now))
    /\ ActiveUnit(Now) = (IF ActiveDeck(Now) \in {0, 1} THEN 1 ELSE 2)
    /\ Light(Now, 0, lights_beat_fx)
           = Def(IF FocusedEnabled(Now, ActiveUnit(Now)) THEN \h7F ELSE 0)

\* The shift button of channel 1 had the last edge, the channel is on deck 3,
\* and the focused effect of unit 2 is enabled while that of unit 1 is not.
FxLightFollowsUnitTwo ==
    /\ state.last_shift_button_pressed = 1
    /\ state.channel_mapping[1] = 3
    /\ FocusedEnabled(Now, 2)
    /\ ~FocusedEnabled(Now, 1)

\* ------------------------------------------------- shift edge and rebind order

\* The step is a press edge of the shift button of channel c.
PressEdge(c) ==
    /\ ~get_shift_button_pressed(World, c)
    /\ get_shift_button_pressed(WorldAfter, c)

\* The position in the log of the double press of channel c.
FiredAt(log, c) == CHOOSE i \in 1..Len(log) : log[i] = <<"shift_double_press", c>>

\* Entry j of the log sends the value to the beat FX light.
FxSendAt(log, j, value) ==
    /\ log[j][1] = "sendShortMsg"
    /\ log[j][2] = lights_beat_fx.status
    /\ log[j][3] = lights_beat_fx.data1
    /\ log[j][4] = value

\* The value the beat FX light has for the deck.
FxValueOf(w, deck) ==
    IF FocusedEnabled(w, default_effect_unit[deck + 1]) THEN \h7F ELSE 0

\* C24: every press edge of the shift button of channel c leaves
\* last_shift_button_pressed = c.  In a turn in which the double press of c
\* fires, last_shift_button_pressed is c and, when that is a change, the beat
\* FX light has been sent again for the deck c still has, before the switch of
\* c begins; after the turn the active deck is the new deck of c.
ShiftUpdateBeforeRebind ==
    [][ \A c \in Channels :
            /\ PressEdge(c) => state'.last_shift_button_pressed = c
            /\ Fired(calls', c) =>
                   /\ state'.last_shift_button_pressed = c
                   /\ state.last_shift_button_pressed # c =>
                          \E j \in 1..(FiredAt(calls', c) - 1) :
                              FxSendAt(calls', j, FxValueOf(World, state.channel_mapping[c]))
                   /\ \A j \in 1..(FiredAt(calls', c) - 1) :
                          ~IsPrint(calls'[j], "Toggling deck")
                   /\ state'.channel_mapping[c]
                          = next_deck(World, c, state.channel_mapping[c])
                   /\ ActiveDeck(WorldAfter) = state'.channel_mapping[c]
      ]_vars

\* The double press of channel 0 fired in a turn that began with
\* last_shift_button_pressed = 1: the light was first sent dark for deck 0 and
\* the turn left it lit for deck 2, the new deck of channel 0.
FiredAfterOtherShift ==
    /\ Fired(calls, 0)
    /\ \E j \in 1..(FiredAt(calls, 0) - 1) : FxSendAt(calls, j, 0)
    /\ state.channel_mapping[0] = 2
    /\ state.last_shift_button_pressed = 0
    /\ Light(Now, 0, lights_beat_fx) = Def(\h7F)

\* ------------------------------------------------------ soft takeover on rebind

\* The six continuous controls of a deck that disconnect_channel prepares:
\* the three EQ parameters, the quick effect, the gain and the volume.
TakeoverControls(group) ==
    {<<"[EqualizerRack1_" \o group \o "_Effect1]", "parameter1">>,
     <<"[EqualizerRack1_" \o group \o "_Effect1]", "parameter2">>,
     <<"[EqualizerRack1_" \o group \o "_Effect1]", "parameter3">>,
     <<"[QuickEffectRack1_" \o group \o "]", "super1">>,
     <<group, "pregain">>,
     <<group, "volume">>}

\* The positions in the log of the softTakeoverIgnoreNextValue calls.
IgnoreCalls(log) ==
    {k \in 1..Len(log) : log[k][1] = "softTakeoverIgnoreNextValue"}

\* C25: a turn that changes the deck of channel c calls
\* softTakeoverIgnoreNextValue once for each of the six continuous controls
\* of the old deck (EQ parameter1 to 3, quick effect super1, pregain, volume)
\* and for no control of the new deck.
SoftTakeoverOnOldDeck ==
    [][ \A c \in Channels :
            state.channel_mapping[c] # state'.channel_mapping[c] =>
                LET ignored == {<<calls'[k][2], calls'[k][3]>> : k \in IgnoreCalls(calls')}
                IN  /\ ignored = TakeoverControls(deck_to_group(state.channel_mapping[c]))
                    /\ Cardinality(IgnoreCalls(calls')) = 6
                    /\ ignored \cap TakeoverControls(deck_to_group(state'.channel_mapping[c]))
                           = {}
      ]_vars

\* The last turn switched channel 1 from deck 1 to deck 3 and told the engine
\* to ignore the next value of the gain of deck 1.
IgnoredGainOfOldDeck ==
    /\ Toggled(Now, 1)
    /\ state.channel_mapping[1] = 3
    /\ \E k \in IgnoreCalls(calls) : calls[k] = <<"softTakeoverIgnoreNextValue", "[Channel2]", "pregain">>

\* ------------------------------------------------------------------- shutdown

\* The host unloads the script: shutdown() is the last turn of a session.
Unloaded == calls # << >> /\ calls[1] = <<"shutdown">>

Shutdown ==
    /\ Commit(shutdown(Called(World, <<"shutdown">>)))
    /\ UNCHANGED history

\* SpecShutdown: the deck switch and the loop-in button of one channel, the
\* loops of its two decks and the blink timers, with a host that may unload
\* the script at any time and calls nothing afterwards.
NextShutdown ==
    \/ ~Unloaded /\ \E c \in LoopChannels :
                        PadInput(8 + 2 * c, pad_modes_beat_jump + 0, Pressed)
    \/ ~Unloaded /\ \E c \in LoopChannels, v \in {Released, Pressed} : LoopIn(c, v)
    \/ ~Unloaded /\ \E k \in LoopChanges, v \in {0, 1} : EngineChange(k[1], k[2], v)
    \/ ~Unloaded /\ \E id \in DOMAIN engine.timers : TimerFires(id)
    \/ ~Unloaded /\ Shutdown

SpecShutdown == Init /\ [][NextShutdown]_vars

\* C26: after shutdown(), whatever state it was called in, no timer of the
\* script is running, no connection of the script is connected, neither a
\* channel's nor a sampler's nor one that init made, and state.timers,
\* state.connections and state.persistent_connections are empty.
CleanShutdown ==
    Unloaded =>
        /\ DOMAIN engine.timers = {}
        /\ engine.connections = {}
        /\ \A c \in Channels :
               /\ state.timers[c] = EmptyObject
               /\ state.connections[c] = EmptyObject
        /\ state.persistent_connections = EmptyObject

\* shutdown() was called while channel 0 was on deck 2 with a blink timer
\* running: it stopped the timer and disconnected the connection to
\* [Master] headSplit.
ShutdownWhileBlinking ==
    /\ Unloaded
    /\ state.channel_mapping[0] = 2
    /\ \E k \in 1..Len(calls) : calls[k][1] = "stopTimer"
    /\ \E k \in 1..Len(calls) :
           calls[k] = <<"disconnect", Undefined, "[Master]", "headSplit">>

\* -------------------------------------------------------------------- startup

\* SpecStartup: SpecLoop in a session that may begin with the loops of the
\* first two decks active.
InitStartup ==
    \E num_decks \in NumDecksChoices, looping \in SUBSET {0, 1} :
        StartsAs(LoadedLooping(num_decks, looping))

SpecStartup == InitStartup /\ [][NextLoop]_vars

\* init() has just returned: the log of the turn is the one of init, the only
\* turn that connects both channels, and no shift edge has been handled.
InitReturned ==
    /\ Connecting(calls, 0) # 0
    /\ Connecting(calls, 1) # 0

\* C27: startup consistency.  When init() has returned, channel 0 is bound to
\* deck 0 and channel 1 to deck 1; each channel holds exactly one connection
\* for every declared control and eight sampler connections; every indicator
\* that is triggered on connection shows what the engine holds for the deck;
\* a channel's blink timer runs exactly when the loop of its deck is active;
\* and no input has been handled yet.
StartupConsistency ==
    InitReturned =>
        /\ state.channel_mapping = [c \in Channels |-> c]
        /\ \A c \in Channels :
               /\ FullyConnected(Now, c)
               /\ Cardinality(LiveConnections(Now, c))
                      = Len(output_control_to_function) + NumSamplerPads
               /\ Cardinality(DOMAIN state.connections[c])
                      = Len(output_control_to_function) + NumSamplerPads
               /\ ShowsDeck(Now, c)
               /\ (LiveTimers(Now, c) # {}) = LoopActive(c)
               /\ state.channel[c].shift_button_pressed = Undefined
               /\ state.channel[c].shift_time = Undefined
        /\ history = NothingSeen

\* init() has returned in a session in which the loop of deck 1 is active and
\* the loop of deck 0 is not: channel 1 has a blink timer, channel 0 has none.
StartedWithLoopOnDeckOne ==
    /\ InitReturned
    /\ LoopActive(1)
    /\ ~LoopActive(0)
    /\ LiveTimers(Now, 1) # {}
    /\ LiveTimers(Now, 0) = {}

\* -------------------------------------------------------------- binding table

\* The step changed channel_mapping only where toggle_deck_channel, which
\* prints 'Toggling deck from .. to ..', switched a channel from its deck to
\* the next one.
WrittenByRebind ==
    \A c \in Channels :
        state'.channel_mapping[c] # state.channel_mapping[c] =>
            \E i \in 1..Len(calls') :
                calls'[i] = <<"print", <<"Toggling deck", state.channel_mapping[c],
                                         state'.channel_mapping[c]>>>>

\* Only toggle_deck_channel writes channel_mapping.
BindingFrame == [][WrittenByRebind]_vars

\* C28: channel_mapping changes only inside toggle_deck_channel; every other
\* handler, callback and timer firing leaves it unchanged; and in every
\* reachable state channel_mapping[c] is a valid deck for both channels.
BindingWrittenOnlyByRebind ==
    [][ /\ WrittenByRebind
        /\ \A c \in Channels : ValidDeck(state'.channel_mapping[c])
      ]_vars

\* ------------------------------------------------------ primary deck indicator

\* C29: after init and after every switch of a deck, the light of the first
\* beat jump pad with shift of channel c is lit exactly when channel c is on
\* its primary deck, deck 0 for channel 0 and deck 1 for channel 1, and off
\* while the channel controls its other deck.
PrimaryDeckIndicator ==
    \A c \in Channels :
        PadLight(Now, c, pad_modes_beat_jump, 0, TRUE)
            = Def(IF state.channel_mapping[c] = primary_deck[c + 1] THEN \h7F ELSE 0)

\* The last turn switched channel 1 to deck 3: its pad is dark while the pad
\* of channel 0, which is on deck 0, is lit.
AlternateDeckShown ==
    /\ Toggled(Now, 1)
    /\ state.channel_mapping = (0 :> 0 @@ 1 :> 3)
    /\ PadLight(Now, 1, pad_modes_beat_jump, 0, TRUE) = Def(0)
    /\ PadLight(Now, 0, pad_modes_beat_jump, 0, TRUE) = Def(\h7F)

\* --------------------------------------------------- effect channel selection

\* The beat FX channel slider is moved to a position.
BeatFxChannel(control, value) ==
    /\ Commit(beat_fx_channel(World, control, value))
    /\ UNCHANGED history

\* SpecRoute: the shift buttons, whose double press switches the deck, and the
\* beat FX channel slider at its positions for channel 1, channel 2 and master.
FxChannelControls == {\h10, \h11, \h14}

NextRoute ==
    \/ \E c \in Channels, v \in {Released, Pressed} : ShiftPressed(c, v)
    \/ \E control \in FxChannelControls, v \in {Released, Pressed} :
           BeatFxChannel(control, v)

SpecRoute == Init /\ [][NextRoute]_vars

\* The decks the slider position selects.
SelectedDecks(w, control) ==
    CASE control = \h10 -> {w.state.channel_mapping[0]}
      [] control = \h11 -> {w.state.channel_mapping[1]}
      [] OTHER -> {}

\* The control of an effect unit that routes a deck into it.
DeckEnable(deck) == "group_[Channel" \o ToString(deck + 1) \o "]_enable"

\* C30: when beat_fx_channel handles a slider position, it sets the deck
\* enables of the active effect unit only: the enable of a deck is set to 1
\* when the deck is the one the position selects (the deck of channel 0 or
\* of channel 1) and the unit assigned to the deck is the active unit, every
\* other deck's enable is set to 0, and no control of the other effect unit is
\* set.
FxChannelWithinActiveUnit ==
    \A control \in FxChannelControls :
        LET log == beat_fx_channel(World, control, Pressed).calls
            group == get_effect_unit_group(Def(ActiveUnit(Now)))
        IN  /\ \A k \in 1..Len(log) : log[k][1] = "setValue" /\ log[k][2] = group
            /\ \A deck \in 0..(get_num_decks(Now) - 1) :
                   {log[k][4] : k \in {j \in 1..Len(log) : log[j][3] = DeckEnable(deck)}}
                       = {IF /\ deck \in SelectedDecks(Now, control)
                             /\ default_effect_unit[deck + 1] = ActiveUnit(Now)
                          THEN 1 ELSE 0}

\* The slider was moved to channel 2 while channel 1 is on deck 3 and the
\* active deck is deck 0 of channel 0: deck 3 belongs to unit 2 and is not
\* routed into unit 1, the active unit.
OtherUnitDeckNotRouted ==
    /\ state.channel_mapping = (0 :> 0 @@ 1 :> 3)
    /\ state.last_shift_button_pressed = 0
    /\ Len(calls) = 5
    /\ calls[4] = <<"setValue", "[EffectRack1_EffectUnit1]", "group_[Channel4]_enable", 0>>
    /\ calls[5] = <<"setValue", "[EffectRack1_EffectUnit1]", "group_[Master]_enable", 0>>

\* ------------------------------------------------------- jog wheel and loops

\* The world with the loop of a group at the given positions.
WithLoopAt(w, group, position) ==
    [w EXCEPT !.engine.values =
        (<<group, "loop_start_position">> :> position[1])
            @@ (<<group, "loop_end_position">> :> position[2]) @@ @]

\* Loop positions, as <<start, end>>, that a deck may have.
LoopAt == {<<0, 0>>, <<1000, 3000>>}

\* C31: while the loop of the deck of channel c is active and the deck is in
\* loop-in (loop-out) adjust mode, a jog turn with value v makes one call to
\* the engine: it sets loop_start_position (loop_end_position) of that deck
\* to its value plus (v - 64) * 50, and sends no jog and no scratch tick.  In
\* mode none or without an active loop a jog turn sets no loop position.
JogAdjustsLoop ==
    \A c \in Channels, v \in JogValues, position \in LoopAt :
        LET group == channel_to_group(Now, c)
            log == JogCalls(WithLoopAt(Now, group, position), c, v)
        IN  IF Looping(Now, c, loop_modifiers_adjust_in)
            THEN log = << <<"setValue", group, "loop_start_position",
                            position[1] + (v - 64) * 50>> >>
            ELSE IF Looping(Now, c, loop_modifiers_adjust_out)
            THEN log = << <<"setValue", group, "loop_end_position",
                            position[2] + (v - 64) * 50>> >>
            ELSE \A k \in 1..Len(log) :
                     log[k][1] = "setValue" => log[k][3] \notin LoopPositions

\* The jog wheel of channel 0 was turned one step back while deck 2, its
\* deck, was in loop-out adjust mode.
JogMovedLoopEnd ==
    /\ state.channel_mapping[0] = 2
    /\ Looping(Now, 0, loop_modifiers_adjust_out)
    /\ calls = << <<"setValue", "[Channel3]", "loop_end_position", 0 - 50>> >>

\* ----------------------------------------------------- double press and release

\* The step is a release edge of the shift button of channel c.
ReleaseEdge(c) ==
    /\ get_shift_button_pressed(World, c)
    /\ ~get_shift_button_pressed(WorldAfter, c)

\* The time since the reference press of channel c, the press that took the
\* timestamp; it is kept exactly up to MaxElapsed.
SinceReference(c) == Date_now - get_last_shift_time(World, c)

\* C32: shift_double_press runs on channel c only at a release edge less than
\* 290 ms after the reference press, and after a later press that came inside
\* the window of that reference.  A release 290 ms or more after the reference
\* press runs nothing and leaves the deck of c as it is, even when the press
\* before it came inside the window.
DoublePressNeedsTimelyRelease ==
    [][ \A c \in Channels :
            /\ Fired(calls', c) =>
                   /\ ReleaseEdge(c)
                   /\ SinceReference(c) < 290
                   /\ state.channel[c].shift_double = Def(TRUE)
                   /\ Val(history.last_press[c]) - get_last_shift_time(World, c) < 290
            /\ (ReleaseEdge(c) /\ SinceReference(c) >= 290) =>
                   /\ ~Fired(calls', c)
                   /\ state'.channel_mapping = state.channel_mapping
      ]_vars

\* The shift button of channel 0 has been released 290 ms after the reference
\* press and 240 ms after a second press inside the window: nothing fired and
\* the channel is still on deck 0.
LateReleaseDidNotFire ==
    /\ ~get_shift_button_pressed(Now, 0)
    /\ state.channel[0].shift_button_pressed # Undefined
    /\ state.channel[0].shift_double = Def(TRUE)
    /\ state.channel[0].shift_time = Def(Date_now - 290)
    /\ history.last_press[0] = Def(Date_now - 240)
    /\ history.fired[0] = 0
    /\ state.channel_mapping[0] = 0
    /\ calls = << >>

\* ------------------------------------------------------------ blink bookkeeping

\* The period and the lights of the blink timer that belongs to a modifier.
PeriodOf(modifier) ==
    IF modifier = loop_modifiers_none THEN times_loop_active ELSE times_loop_adjust

LightsOf(modifier) ==
    CASE modifier = loop_modifiers_adjust_in -> {lights_loop_in, lights_shift_loop_in}
      [] modifier = loop_modifiers_adjust_out -> {lights_loop_out, lights_shift_loop_out}
      [] OTHER -> LoopLights

\* C33: at the end of every turn, for every channel c,
\* state.channel[c].current_loop_modifier is the loop adjust state of the
\* deck of c when the loop of that deck is active, and none otherwise; c has
\* a blink timer exactly when the loop of its deck is active; and the timer
\* has the period and blinks the lights that belong to current_loop_modifier.
BlinkBookkeeping ==
    \A c \in Channels :
        LET active == get_loop_active(Now, channel_to_group(Now, c)) # 0
            modifier == state.channel[c].current_loop_modifier
        IN  /\ modifier = (IF active
                           THEN get_loop_adjust_state(Now, channel_to_deck(Now, c))
                           ELSE loop_modifiers_none)
            /\ (LiveTimers(Now, c) # {}) = active
            /\ (TimerOf(Now, c) # Undefined) = active
            /\ active =>
                   /\ OneTimer(Now, c, PeriodOf(modifier))
                   /\ \A id \in LiveTimers(Now, c) : Blinks(Now, id, c, LightsOf(modifier))

\* Channel 0 is on deck 2 in loop-out adjust mode while deck 0, which it
\* left, is still marked adjusting-in: the bookkeeping follows deck 2.
BookkeepingFollowsBoundDeck ==
    /\ state.channel_mapping[0] = 2
    /\ Looping(Now, 0, loop_modifiers_adjust_out)
    /\ state.deck[0].loop_adjust = Def(loop_modifiers_adjust_in)
    /\ state.channel[0].current_loop_modifier = loop_modifiers_adjust_out

\* ------------------------------------------------------- loop change and adjust

\* The step told channel c a value of loop_enabled of its deck: the value
\* changed while c stayed on the deck, or c was connected to the deck.
LoopReported(c) ==
    \/ Toggled(WorldAfter, c)
    \/ /\ state'.channel_mapping[c] = state.channel_mapping[c]
       /\ get_loop_active(WorldAfter, channel_to_group(World, c))
              # get_loop_active(World, channel_to_group(World, c))

\* C34: every turn that reports loop_enabled of the deck of channel c, be it
\* an activation, a deactivation or the trigger on connect, leaves the loop
\* adjust state of the deck none and the two reloop lights of c at the new
\* value; a loop that has just become active blinks both lights with the
\* loop_active timer; and a press of loop-in or loop-out while the loop of
\* the deck is not active changes no deck's loop adjust state.
LoopChangeResetsAdjust ==
    [][ \A c \in Channels :
            /\ LoopReported(c) =>
                   LET deck == state'.channel_mapping[c]
                       value == get_loop_active(WorldAfter, deck_to_group(deck))
                   IN  /\ get_loop_adjust_state(WorldAfter, deck) = loop_modifiers_none
                       /\ Light(WorldAfter, c, lights_reloop) = Def(On(value))
                       /\ Light(WorldAfter, c, lights_shift_reloop) = Def(On(value))
                       /\ value # 0 =>
                              /\ OneTimer(WorldAfter, c, times_loop_active)
                              /\ \A id \in LiveTimers(WorldAfter, c) :
                                     Blinks(WorldAfter, id, c, LoopLights)
            /\ get_loop_active(World, channel_to_group(World, c)) = 0 =>
                   /\ loop_in(World, c, Pressed).state.deck = state.deck
                   /\ loop_out(World, c, Pressed).state.deck = state.deck
      ]_vars

\* The loop of deck 0 has just ended under channel 0: the turn stopped the
\* blink timer and darkened the reloop light, and the deck is in state none.
LoopEndDarkenedReloop ==
    /\ state.channel_mapping[0] = 0
    /\ ~LoopActive(0)
    /\ \E k \in 1..Len(calls) : calls[k][1] = "stopTimer"
    /\ calls[Len(calls)] = <<"sendShortMsg", lights_shift_reloop.status + 0,
                             lights_shift_reloop.data1, 0>>
    /\ state.deck[0].loop_adjust = Def(loop_modifiers_none)

\* -------------------------------------------------------------------- scratch

\* The top of the jog wheel of a channel is touched (0x7F) or released (0);
\* the log of the turn begins with the event.
JogTouch(channel, value) ==
    /\ Commit(jogTouch(Called(World, <<"jogTouch", channel, value>>), channel, value))
    /\ UNCHANGED history

\* SpecScratch: SpecLoop with the touch of the jog wheel of its channel, the
\* only wheel that is touched.
NextScratch ==
    \/ NextLoop
    \/ \E c \in LoopChannels, v \in {Released, Pressed} : JogTouch(c, v)

SpecScratch == Init /\ [][NextScratch]_vars

\* C35: scratch mode does not outlive the touch.  When the last jog touch
\* event of every channel was a release, no deck has scratching enabled,
\* whatever loop-in and loop-out presses and deck switches came between the
\* touch and its release.  Channel 0 is the only one touched, and the state
\* is the one its release left.
ScratchEndsWithTouch ==
    (calls # << >> /\ calls[1] = <<"jogTouch", 0, Released>>)
        => engine.scratching = {}

\* ------------------------------------------------------- toggle on two decks

\* The log entry of a toggle that found no other deck.
WouldToggle(deck) == <<"print", <<"Would toggle deck but next deck is identical", deck>>>>

\* C36: the toggle is a no-op when there is no other deck.  While the host
\* reports 2 decks, toggle_deck_channel(c) stops no timer, disconnects no
\* connection, issues no soft takeover notice and creates no connection (its
\* only host call is the print of the message), and it leaves channel_mapping
\* and all the rest of the state, the engine and the lights as they were.
ToggleOnTwoDecksIsNoOp ==
    get_num_decks(World) = 2 =>
        \A c \in {0, 1} :
            LET toggled == toggle_deck_channel(World, c)
            IN  /\ toggled.state = state
                /\ toggled.engine = engine
                /\ toggled.midi = midi
                /\ toggled.calls = <<WouldToggle(channel_to_deck(World, c))>>

\* The deck switch of channel 0 was pressed on two decks while the loop of
\* its deck blinked: the blink timer lives on and the channel is on deck 0.
ToggledOnTwoDecksWhileBlinking ==
    /\ get_num_decks(World) = 2
    /\ \E k \in DOMAIN calls : calls[k] = WouldToggle(0)
    /\ DOMAIN engine.timers # {}
    /\ state.channel_mapping[0] = 0

\* ------------------------------------------------------- frame of a rebind

\* SpecFrame: the deck switches of both channels, and of channel 1 the pad
\* that steps the beat jump scale up, the loop-in button and the shift
\* button, in a session that may begin with the loops of the first two decks
\* active.
FrameChannels == {1}

NextFrame ==
    \/ \E pc \in {8, 10} : PadInput(pc, pad_modes_beat_jump + 0, Pressed)
    \/ \E c \in FrameChannels : PadInput(8 + 2 * c, pad_modes_beat_jump + 7, Pressed)
    \/ \E c \in FrameChannels : LoopIn(c, Pressed)
    \/ \E c \in FrameChannels, v \in {Released, Pressed} : ShiftPressed(c, v)

SpecFrame == InitStartup /\ [][NextFrame]_vars

\* What a rebind of a channel leaves alone in the channel record of either
\* channel.
GestureAndScale(w, channel) ==
    LET ch == w.state.channel[channel]
    IN  <<ch.beatjump_scalestep, ch.shift_time, ch.shift_double, ch.shift_button_pressed>>

\* The binding, the connections and the timers of a channel.
BindingOf(w, channel) ==
    <<w.state.channel_mapping[channel],
      w.state.connections[channel], LiveConnections(w, channel),
      w.state.timers[channel], [id \in LiveTimers(w, channel) |-> w.engine.timers[id]]>>

\* C37: the frame of a rebind.  toggle_deck_channel(c) leaves unchanged the
\* binding, the connections and the timers of the other channel, the
\* beatjump_scalestep and the shift gesture state (reference timestamp,
\* pending double flag, pressed flag) of both channels,
\* last_shift_button_pressed, the effect unit of every deck, and the
\* LoopAdjustState of every deck but the newly bound one.
RebindFrame ==
    \A c \in Channels :
        LET toggled == toggle_deck_channel(World, c)
        IN  /\ BindingOf(toggled, 1 - c) = BindingOf(World, 1 - c)
            /\ \A ch \in Channels :
                   GestureAndScale(toggled, ch) = GestureAndScale(World, ch)
            /\ toggled.state.last_shift_button_pressed = state.last_shift_button_pressed
            /\ \A d \in Decks :
                   toggled.state.deck[d].effect_unit = state.deck[d].effect_unit
            /\ \A d \in Decks \ {channel_to_deck(toggled, c)} :
                   toggled.state.deck[d].loop_adjust = state.deck[d].loop_adjust

\* Channel 0 was switched to deck 2 by its pad while channel 1 blinked for
\* the adjust-in mode of deck 1 and its scale had been stepped up: the timer,
\* the mode and the scale are still there.
ReboundBesideBlinkingChannel ==
    /\ \E k \in DOMAIN calls : calls[k] = <<"print", <<"Toggling deck", 0, 2>>>>
    /\ state.channel_mapping = [c \in Channels |-> IF c = 0 THEN 2 ELSE 1]
    /\ LiveTimers(Now, 1) # {}
    /\ state.deck[1].loop_adjust = Def(loop_modifiers_adjust_in)
    /\ state.channel[1].beatjump_scalestep # state.channel[0].beatjump_scalestep

\* ------------------------------------------------------ blinking goes on

\* The engine fires a timer for as long as it lives: a blink timer of the
\* channel that stays live fires again and again.
TimerFiresOn(channel) == \E id \in LiveTimers(World, channel) : TimerFires(id)

\* SpecBlink: SpecRepeat with an engine whose timers keep firing.
SpecBlink == Init /\ [][NextRepeat]_vars /\ WF_vars(TimerFiresOn(0))

\* Channel c is on the deck and the loop of the deck is active.
LoopKept(c, deck) ==
    /\ state.channel_mapping[c] = deck
    /\ get_loop_active(Now, deck_to_group(deck)) # 0

\* The lights of the mode that c blinks for are all lit, or all dark.
BlinkLights(c, value) ==
    \A light \in LightsOf(state.channel[c].current_loop_modifier) :
        Light(Now, c, light) = Def(value)

\* A recompute of the lights of c that finds the timer of the mode of its
\* deck running makes no host call and changes nothing.
RecomputeKeepsTimer(c) ==
    (/\ get_loop_active(Now, channel_to_group(Now, c)) # 0
     /\ TimerOf(Now, c) # Undefined
     /\ state.channel[c].current_loop_modifier
            = get_loop_adjust_state(Now, channel_to_deck(Now, c)))
        => update_loop_inout_lights(World, c) = World

\* C38: blinking continues.  If from some time on channel 0 stays on one
\* deck and the loop of that deck stays active, then, the timers of the
\* engine firing fairly, the lights of the current mode (both loop lights for
\* none, the loop-in lights for adjust-in, the loop-out lights for
\* adjust-out) are lit again and again and dark again and again; and a
\* recompute that finds the same mode already running never stops the
\* blinking.
BlinkingContinues ==
    /\ [](\A c \in LoopChannels : RecomputeKeepsTimer(c))
    /\ \A deck \in {0, 2} :
           <>[]LoopKept(0, deck) =>
               /\ []<>BlinkLights(0, \h7F)
               /\ []<>BlinkLights(0, 0)

\* The engine told channel 0 again that the loop of deck 0 is active while
\* its timer blinked both loop lights, which were lit: the turn lit the
\* reloop light, stopped and began no timer, and the lights are still lit.
RepeatedWhileBlinkingLit ==
    /\ LoopKept(0, 0)
    /\ state.channel[0].current_loop_modifier = loop_modifiers_none
    /\ BlinkLights(0, \h7F)
    /\ \E id \in LiveTimers(Now, 0) : engine.timers[id].blink_state
    /\ \E k \in DOMAIN calls :
           calls[k] = <<"sendShortMsg", lights_reloop.status + 0, lights_reloop.data1, \h7F>>
    /\ \A k \in DOMAIN calls : calls[k][1] \notin {"stopTimer", "beginTimer"}

\* ------------------------------------------------------------ effect slots

\* The beat > button (next effect slot) or the beat < button (previous
\* effect slot) is pressed or released; the log of the turn begins with the
\* event.
NextEffectSlot(value) ==
    /\ Commit(next_effect_slot(Called(World, <<"next_effect_slot", value>>), value))
    /\ UNCHANGED history

PrevEffectSlot(value) ==
    /\ Commit(prev_effect_slot(Called(World, <<"prev_effect_slot", value>>), value))
    /\ UNCHANGED history

\* SpecSlots: the shift buttons of both channels, which also switch the
\* decks, the two slot buttons, and an engine that moves the focus of the
\* second effect unit to any of its slots or to none.
SlotUnits == {2}
SlotFocus == 0..NumEffectSlots

NextSlots ==
    \/ \E c \in Channels, v \in {Released, Pressed} : ShiftPressed(c, v)
    \/ \E unit \in SlotUnits, focus \in SlotFocus :
           EngineChange(get_effect_unit_group(Def(unit)), "focused_effect", focus)
    \/ \E v \in {Released, Pressed} : NextEffectSlot(v)
    \/ \E v \in {Released, Pressed} : PrevEffectSlot(v)

SpecSlots == Init /\ [][NextSlots]_vars

\* The focus a press of a slot button asks for in a unit of n slots whose
\* focus is f.
WrappedFocus(next, f, n) ==
    IF f = 0 THEN 1
    ELSE IF next THEN (f % n) + 1
    ELSE ((f - 2 + n) % n) + 1

\* The turn was a press of the slot button and the focus it asked for in the
\* unit of the deck is the wrapped one, inside the unit.
CycledOn(button, next, deck) ==
    LET unit_group == get_deck_effect_unit_group(Now, deck)
        n == getValue(Now, unit_group, "num_effectslots")
        f == getValue(Now, unit_group, "focused_effect")
    IN  (calls # << >> /\ calls[1] = <<button, Pressed>> /\ n >= 1 /\ f \in 0..n) =>
            /\ WrappedFocus(next, f, n) \in 1..n
            /\ calls = <<calls[1],
                         <<"setValue", unit_group, "focused_effect", WrappedFocus(next, f, n)>>>>

\* C39: effect slot cycling wraps inside the unit.  For a unit of n >= 1
\* slots and a focus f in 1..n, a press of next asks for the focus
\* (f mod n) + 1 and a press of prev for ((f - 2 + n) mod n) + 1; with no
\* focus (f = 0) both ask for 1; the focus asked for is in 1..n, and it is
\* asked of the unit of the deck of the channel whose shift button was
\* pressed last.
SlotCyclingOnLastPressed ==
    history.last_pressed # Undefined =>
        /\ CycledOn("next_effect_slot", TRUE, channel_to_deck(Now, Val(history.last_pressed)))
        /\ CycledOn("prev_effect_slot", FALSE, channel_to_deck(Now, Val(history.last_pressed)))

====
